---- MODULE Spec2Model ----
(***************************************************************************)
(* Temporal classification and analytics core of the task manager:         *)
(*   frontend/src/utils/dateUtils.ts   getTaskStatus, getTaskStatusText    *)
(*   backend reports route             getDateRange, calculateStreak,      *)
(*                                     GET /api/reports                    *)
(* Instants are whole hours since 1970-01-01T00:00Z (a JavaScript Date     *)
(* value with the millisecond scale divided by 3600000).                   *)
(***************************************************************************)
EXTENDS Integers, Sequences, FiniteSets, TLC

VARIABLES now, tz, dueDate, completed, status, statusText,
          tasks, streak, range, resp,
          formData, errors, req, routine, taskList, sortResult, num, suffix,
          db, inflight, api, board

vars == <<now, tz, dueDate, completed, status, statusText,
          tasks, streak, range, resp,
          formData, errors, req, routine, taskList, sortResult, num, suffix,
          db, inflight, api, board>>

(***************************************************************************)
(* Calendar arithmetic of the JavaScript Date object (proleptic Gregorian) *)
(***************************************************************************)
HoursPerDay == 24

\* Day number (days since 1970-01-01) of the civil date y-m-d.
DaysFromCivil(y, m, d) ==
  LET yy  == IF m <= 2 THEN y - 1 ELSE y
      era == yy \div 400
      yoe == yy - era * 400
      mp  == IF m > 2 THEN m - 3 ELSE m + 9
      doy == (153 * mp + 2) \div 5 + d - 1
      doe == yoe * 365 + yoe \div 4 - yoe \div 100 + doy
  IN  era * 146097 + doe - 719468

\* Civil date <<y, m, d>> of a day number.
CivilFromDays(n) ==
  LET z   == n + 719468
      era == z \div 146097
      doe == z - era * 146097
      yoe == (doe - doe \div 1460 + doe \div 36524 - doe \div 146096) \div 365
      doy == doe - (365 * yoe + yoe \div 4 - yoe \div 100)
      mp  == (5 * doy + 2) \div 153
      d   == doy - (153 * mp + 2) \div 5 + 1
      m   == IF mp < 10 THEN mp + 3 ELSE mp - 9
      y   == yoe + era * 400 + (IF m <= 2 THEN 1 ELSE 0)
  IN  <<y, m, d>>

\* ECMAScript MakeDay: month (1-based here) and day may lie outside their
\* ranges; the month is normalised into the year, the day is added as an offset.
MakeDay(y, m, d) ==
  LET m0 == m - 1
      yn == y + m0 \div 12
      mn == (m0 % 12) + 1
  IN  DaysFromCivil(yn, mn, 1) + d - 1

\* Date.prototype.toISOString().split('T')[0]: the UTC date "YYYY-MM-DD" as
\* its eight digits (the dashes sit at the same positions in every string and
\* never decide a comparison).
ISODate(t) ==
  LET c == CivilFromDays(t \div HoursPerDay)
  IN  << c[1] \div 1000, (c[1] \div 100) % 10, (c[1] \div 10) % 10, c[1] % 10,
         c[2] \div 10, c[2] % 10, c[3] \div 10, c[3] % 10 >>

\* JavaScript string comparison s < t on digit strings of equal length.
StrLess(s, t) ==
  \E i \in 1..Len(s) :
     /\ s[i] < t[i]
     /\ \A j \in 1..(i - 1) : s[j] = t[j]

\* new Date(s + 'T00:00:00.000Z').getTime(): the instant of UTC midnight.
ParseISODate(s) ==
  LET y == s[1] * 1000 + s[2] * 100 + s[3] * 10 + s[4]
      m == s[5] * 10 + s[6]
      d == s[7] * 10 + s[8]
  IN  DaysFromCivil(y, m, d) * HoursPerDay

\* Math.ceil(a / b) for b > 0.
Ceil(a, b) == -((-a) \div b)

(***************************************************************************)
(* Local time of the process running the backend (the TZ of its host).     *)
(* toDateString, setHours, setDate, setMonth and new Date("Mon Jan 01      *)
(* 2024") work on local time; toISOString and Date.now() on UTC.           *)
(***************************************************************************)
Zones == {"UTC", "America/New_York"}

\* Standard offset and the daylight-saving interval covering 2024.
ZoneInfo(zone) ==
  IF zone = "America/New_York"
  THEN [std      |-> -5,
        dstStart |-> DaysFromCivil(2024, 3, 10) * HoursPerDay + 7,
        dstEnd   |-> DaysFromCivil(2024, 11, 3) * HoursPerDay + 6]
  ELSE [std |-> 0, dstStart |-> 0, dstEnd |-> 0]

\* Offset of local time from UTC at instant t, in hours.
Offset(zone, t) ==
  LET z == ZoneInfo(zone)
  IN  IF z.dstStart <= t /\ t < z.dstEnd THEN z.std + 1 ELSE z.std

\* Local wall-clock reading of instant t, in hours since 1970-01-01T00:00 local.
ToLocal(zone, t) == t + Offset(zone, t)

\* ECMAScript UTC(tlocal): a repeated or skipped local time is read with the
\* offset in force before the transition.
FromLocal(zone, l) ==
  LET z == ZoneInfo(zone)
  IN  IF Offset(zone, l - (z.std + 1)) = z.std + 1
      THEN l - (z.std + 1)
      ELSE l - z.std

\* Date.prototype.toDateString(): the local civil date (the weekday name is a
\* function of the date and adds nothing to equality).
toDateString(zone, t) == CivilFromDays(ToLocal(zone, t) \div HoursPerDay)

\* new Date(s) for s produced by toDateString: local midnight of that date.
ParseDateString(zone, c) ==
  FromLocal(zone, DaysFromCivil(c[1], c[2], c[3]) * HoursPerDay)

\* d.setDate(dayOfMonth): year, month and time of day of d are kept.
SetDate(zone, t, dayOfMonth) ==
  LET l == ToLocal(zone, t)
      c == CivilFromDays(l \div HoursPerDay)
  IN  FromLocal(zone, MakeDay(c[1], c[2], dayOfMonth) * HoursPerDay + (l % HoursPerDay))

\* d.setMonth(month): month is 1-based here (JavaScript month + 1).
SetMonth(zone, t, month) ==
  LET l == ToLocal(zone, t)
      c == CivilFromDays(l \div HoursPerDay)
  IN  FromLocal(zone, MakeDay(c[1], month, c[3]) * HoursPerDay + (l % HoursPerDay))

\* d.setHours(0, 0, 0, 0)
SetMidnight(zone, t) ==
  FromLocal(zone, (ToLocal(zone, t) \div HoursPerDay) * HoursPerDay)

\* d.getDate() and d.getMonth() + 1
GetDate(zone, t)  == CivilFromDays(ToLocal(zone, t) \div HoursPerDay)[3]
GetMonth(zone, t) == CivilFromDays(ToLocal(zone, t) \div HoursPerDay)[2]

(***************************************************************************)
(* Reports route: helpers                                                  *)
(***************************************************************************)
Periods == {"today", "week", "month", "all"}

\* The element of a one-element set; { F(x) : x \in {e} } evaluates e once
\* and hands its value to F.
The(S) == CHOOSE x \in S : TRUE

\* new Date('2000-01-01')
Year2000 == DaysFromCivil(2000, 1, 1) * HoursPerDay

getDateRange(period, zone, clock) ==
  LET startDate ==
        CASE period = "today" -> SetMidnight(zone, clock)
          [] period = "week"  -> SetDate(zone, clock, GetDate(zone, clock) - 7)
          [] period = "month" -> SetMonth(zone, clock, GetMonth(zone, clock) - 1)
          [] OTHER            -> Year2000
  IN  [startDate |-> startDate, endDate |-> clock, period |-> period]

\* Task records as Prisma delivers them: createdAt and updatedAt are instants,
\* dueDate is Null or a Date object, categoryId is "none" (null) or an id.
Null == [type |-> "null", value |-> 0]
DateObj(t) == [type |-> "Date", value |-> t]
Task(createdAt, updatedAt, done, due, categoryId) ==
  [createdAt |-> createdAt, updatedAt |-> updatedAt, completed |-> done,
   dueDate |-> due, categoryId |-> categoryId]

\* The while loop of calculateStreak: one iteration per productive day.
RECURSIVE StreakLoop(_, _, _)
StreakLoop(completionDates, zone, currentDate) ==
  IF toDateString(zone, currentDate) \in completionDates
  THEN 1 + StreakLoop(completionDates, zone,
                      SetDate(zone, currentDate, GetDate(zone, currentDate) - 1))
  ELSE 0

calculateStreak(ts, zone, clock) ==
  IF ts = {} THEN 0
  ELSE LET completionDates ==
             { toDateString(zone, t.updatedAt) : t \in { u \in ts : u.completed } }
           today     == toDateString(zone, clock)
           yesterday == toDateString(zone, clock - HoursPerDay)
       IN  IF completionDates = {} THEN 0
           ELSE IF today \notin completionDates /\ yesterday \notin completionDates
           THEN 0
           ELSE LET checkDate == IF today \in completionDates THEN today ELSE yesterday
                IN  StreakLoop(completionDates, zone, ParseDateString(zone, checkDate))

(***************************************************************************)
(* Reports route: GET /api/reports                                         *)
(***************************************************************************)
\* Values of the categoryId query parameter sent by the client: 'all' or a
\* category id ("absent" stands for a request without the parameter).
CategoryParams == {"all", "c1"}

\* prisma.task.findMany({ where: baseFilter })
FilterTasks(ts, r, categoryId) ==
  { t \in ts :
      /\ r.startDate <= t.createdAt
      /\ t.createdAt <= r.endDate
      /\ (categoryId # "absent" /\ categoryId # "all") => t.categoryId = categoryId }

\* Variant: the completed tasks are taken from the whole task table.
CompletedOf_AllUserTasks(ts) == { t \in tasks : t.completed }

\* tasks.filter(task => task.completed)
CompletedOf(ts) == { t \in ts : t.completed }

\* completed / total * 100 guarded against total = 0, as an exact fraction.
Percent(completedN, totalN) ==
  IF totalN > 0 THEN [num |-> completedN * 100, den |-> totalN]
  ELSE [num |-> 0, den |-> 1]

\* Math.round(rate * 100) / 100, in hundredths of a percent.
RoundCenti(p) == (2 * p.num * 100 + p.den) \div (2 * p.den)

\* The overdue predicate of the route, evaluated on one task: "true", "false",
\* or "TypeError" when split is called on a value that has no such method.
OverduePred(t, todayString) ==
  IF t.completed THEN "false"
  ELSE IF t.dueDate.type = "null" THEN "false"
  ELSE IF t.dueDate.type = "string"
       THEN (IF StrLess(ISODate(t.dueDate.value), todayString) THEN "true" ELSE "false")
  ELSE "TypeError"

\* One card of the time-based summary.
Summarize(ts) ==
  [total          |-> Cardinality(ts),
   completed      |-> Cardinality(CompletedOf(ts)),
   completionRate |-> Percent(Cardinality(CompletedOf(ts)), Cardinality(ts))]

\* The category table, as prisma.category.findMany({ orderBy: { name: 'asc' } })
\* delivers it: NumCategories rows in name order (names are unique). The table
\* is not filtered by user.
NumCategories == 6
TopCount      == 5
CategoryIds   == <<"c1", "c2", "c3", "c4", "c5", "c6", "c7", "c8">>
CategoryNames == <<"Errands", "Family", "Health", "Home", "Personal",
                   "Shopping", "Travel", "Work">>
CategoryTable == [ i \in 1..NumCategories |->
                     [id |-> CategoryIds[i], name |-> CategoryNames[i]] ]

\* Variant: an entry is written for every category, with or without tasks.
CategoryDistribution_KeepEmpty(ts) ==
  [ i \in 1..NumCategories |->
      LET categoryTasks == { t \in ts : t.categoryId = CategoryTable[i].id }
      IN  [name      |-> CategoryTable[i].name,
           total     |-> Cardinality(categoryTasks),
           completed |-> Cardinality({ t \in categoryTasks : t.completed })] ]

\* categories.forEach(...): the object categoryDistribution as the sequence of
\* its entries in insertion order (the order Object.entries enumerates).
CategoryDistribution(ts) ==
  LET entry(i) ==
        LET categoryTasks == { t \in ts : t.categoryId = CategoryTable[i].id }
        IN  [name      |-> CategoryTable[i].name,
             total     |-> Cardinality(categoryTasks),
             completed |-> Cardinality({ t \in categoryTasks : t.completed })]
      NonEmpty(e) == e.total > 0
  IN  SelectSeq([ i \in 1..NumCategories |-> entry(i) ], NonEmpty)

\* Array.prototype.sort((a, b) => b.total - a.total): a stable sort, entries
\* of equal total keep their order.
RECURSIVE SortByTotalDesc(_)
SortByTotalDesc(s) ==
  IF s = <<>> THEN <<>>
  ELSE LET e == s[Len(s)]
           Insert(sorted) ==
             LET k == Cardinality({ i \in 1..Len(sorted) : sorted[i].total >= e.total })
             IN  SubSeq(sorted, 1, k) \o <<e>> \o SubSeq(sorted, k + 1, Len(sorted))
       IN  The({ Insert(sorted) : sorted \in {SortByTotalDesc(SubSeq(s, 1, Len(s) - 1))} })

\* Array.prototype.slice(0, n)
Slice(s, n) == SubSeq(s, 1, IF Len(s) < n THEN Len(s) ELSE n)

\* Variant: the list is cut to its length before it is sorted.
TopCategories_SliceFirst(dist) == SortByTotalDesc(Slice(dist, TopCount))

\* Object.entries(categoryDistribution).sort(...).slice(0, 5).map(...)
TopCategories(dist) == Slice(SortByTotalDesc(dist), TopCount)

\* The response of GET /api/reports?period=..&categoryId=.. for the task
\* table ts at instant clock: the payload, or the error passed to next().
\* Of the payload, the overview counters, the category distribution (without
\* the colour), the top categories, the summary and the date range are
\* modelled; the route changes no stored record.
Report(ts, zone, clock, period, categoryId) ==
  LET Payload(r, filtered, categoryDistribution) ==
        LET allUserTasks   == ts
            totalTasks     == Cardinality(filtered)
            completedTasks == Cardinality(CompletedOf(filtered))
            pendingTasks   == totalTasks - completedTasks
            completionRate == Percent(completedTasks, totalTasks)
            todayString    == ISODate(clock)
            overdue        == { t \in filtered : OverduePred(t, todayString) = "true" }
            productiveDays ==
              Cardinality({ toDateString(zone, t.updatedAt) : t \in CompletedOf(filtered) })
            currentStreak  == calculateStreak(allUserTasks, zone, clock)
            today          == toDateString(zone, clock)
            thisWeek       == clock - 7 * HoursPerDay
            thisMonth      == clock - 30 * HoursPerDay
            todayTasks     == { t \in filtered : toDateString(zone, t.createdAt) = today }
            weekTasks      == { t \in filtered : t.createdAt >= thisWeek }
            monthTasks     == { t \in filtered : t.createdAt >= thisMonth }
        IN  IF \E t \in filtered : OverduePred(t, todayString) = "TypeError"
            THEN [kind |-> "error", period |-> period, categoryId |-> categoryId]
            ELSE [kind       |-> "report",
                  period     |-> period,
                  categoryId |-> categoryId,
                  overview   |-> [totalTasks     |-> totalTasks,
                                  completedTasks |-> completedTasks,
                                  pendingTasks   |-> pendingTasks,
                                  completionRate |-> RoundCenti(completionRate),
                                  overdueTasks   |-> Cardinality(overdue),
                                  productiveDays |-> productiveDays,
                                  currentStreak  |-> currentStreak],
                  categoryDistribution |-> categoryDistribution,
                  topCategories        |-> TopCategories(categoryDistribution),
                  summary    |-> [today |-> Summarize(todayTasks),
                                  week  |-> Summarize(weekTasks),
                                  month |-> Summarize(monthTasks)],
                  dateRange  |-> [start |-> r.startDate, end |-> r.endDate]]
  IN  The(UNION UNION
        { { { Payload(r, filtered, categoryDistribution) :
                categoryDistribution \in {CategoryDistribution(filtered)} } :
              filtered \in {FilterTasks(ts, r, categoryId)} } :
            r \in {getDateRange(period, zone, clock)} })

(***************************************************************************)
(* frontend/src/utils/dateUtils.ts                                         *)
(***************************************************************************)
Text(prefix, n, unit) == [prefix |-> prefix, n |-> n, unit |-> unit]

\* Variant: the date branches run before the completion test.
getTaskStatus_DateFirst(due, done, clock) ==
  LET today == ISODate(clock)
      dueS  == ISODate(due)
  IN  IF StrLess(dueS, today) THEN "overdue"
      ELSE IF done THEN "completed"
      ELSE IF dueS = today THEN "due-today"
      ELSE IF Ceil(ParseISODate(dueS) - ParseISODate(today), HoursPerDay) <= 3
           THEN "due-soon" ELSE "future"

\* Variant: the due-soon window excludes its upper boundary.
getTaskStatus_SoonBelow3(due, done, clock) ==
  IF done THEN "completed"
  ELSE LET today == ISODate(clock)
           dueS  == ISODate(due)
       IN  IF StrLess(dueS, today) THEN "overdue"
           ELSE IF dueS = today THEN "due-today"
           ELSE IF Ceil(ParseISODate(dueS) - ParseISODate(today), HoursPerDay) < 3
                THEN "due-soon" ELSE "future"

getTaskStatus(due, done, clock) ==
  IF done THEN "completed"
  ELSE LET today == ISODate(clock)
           dueS  == ISODate(due)
       IN  IF StrLess(dueS, today) THEN "overdue"
           ELSE IF dueS = today THEN "due-today"
           ELSE LET diffTime == ParseISODate(dueS) - ParseISODate(today)
                    diffDays == Ceil(diffTime, HoursPerDay)
                IN  IF diffDays <= 3 THEN "due-soon" ELSE "future"

\* Variant: the days branch excludes its upper boundary 7.
getTaskStatusText_WeekAt7(due, done, clock) ==
  IF done THEN Text("Completed", 0, "")
  ELSE LET today == ISODate(clock)
           dueS  == ISODate(due)
           diffDays == Ceil(ParseISODate(dueS) - ParseISODate(today), HoursPerDay)
       IN  IF StrLess(dueS, today)
           THEN Text("Overdue by", 0 - diffDays, IF 0 - diffDays > 1 THEN "days" ELSE "day")
           ELSE IF dueS = today THEN Text("Due today", 0, "")
           ELSE IF diffDays = 1 THEN Text("Due tomorrow", 0, "")
           ELSE IF diffDays < 7 THEN Text("Due in", diffDays, "days")
           ELSE IF diffDays <= 30
           THEN Text("Due in", Ceil(diffDays, 7),
                     IF Ceil(diffDays, 7) > 1 THEN "weeks" ELSE "week")
           ELSE Text("Due in", Ceil(diffDays, 30),
                     IF Ceil(diffDays, 30) > 1 THEN "months" ELSE "month")

\* Variant: the overdue text pluralises from one day on.
getTaskStatusText_PluralFromOne(due, done, clock) ==
  IF done THEN Text("Completed", 0, "")
  ELSE LET today == ISODate(clock)
           dueS  == ISODate(due)
           diffDays == Ceil(ParseISODate(dueS) - ParseISODate(today), HoursPerDay)
       IN  IF StrLess(dueS, today)
           THEN Text("Overdue by", 0 - diffDays, IF 0 - diffDays >= 1 THEN "days" ELSE "day")
           ELSE IF dueS = today THEN Text("Due today", 0, "")
           ELSE IF diffDays = 1 THEN Text("Due tomorrow", 0, "")
           ELSE IF diffDays <= 7 THEN Text("Due in", diffDays, "days")
           ELSE IF diffDays <= 30
           THEN Text("Due in", Ceil(diffDays, 7),
                     IF Ceil(diffDays, 7) > 1 THEN "weeks" ELSE "week")
           ELSE Text("Due in", Ceil(diffDays, 30),
                     IF Ceil(diffDays, 30) > 1 THEN "months" ELSE "month")

getTaskStatusText(due, done, clock) ==
  IF done THEN Text("Completed", 0, "")
  ELSE LET today == ISODate(clock)
           dueS  == ISODate(due)
       IN  IF StrLess(dueS, today)
           THEN LET diffTime    == ParseISODate(today) - ParseISODate(dueS)
                    overdueDays == Ceil(diffTime, HoursPerDay)
                IN  Text("Overdue by", overdueDays,
                         IF overdueDays > 1 THEN "days" ELSE "day")
           ELSE IF dueS = today THEN Text("Due today", 0, "")
           ELSE LET diffTime == ParseISODate(dueS) - ParseISODate(today)
                    diffDays == Ceil(diffTime, HoursPerDay)
                IN  IF diffDays = 1 THEN Text("Due tomorrow", 0, "")
                    ELSE IF diffDays <= 7 THEN Text("Due in", diffDays, "days")
                    ELSE IF diffDays <= 30
                    THEN Text("Due in", Ceil(diffDays, 7),
                              IF Ceil(diffDays, 7) > 1 THEN "weeks" ELSE "week")
                    ELSE Text("Due in", Ceil(diffDays, 30),
                              IF Ceil(diffDays, 30) > 1 THEN "months" ELSE "month")

(***************************************************************************)
(* Rendering one task: the classifier specification                        *)
(***************************************************************************)
StatusNowDays == 3      \* days the clock may lie after StatusFirstDay
MaxBehind     == 4      \* earliest due date, in days before StatusFirstDay
MaxAhead      == 65     \* latest due date, in days after StatusFirstDay

StatusFirstDay == DaysFromCivil(2023, 12, 30)
ClockHours     == {0, 11, 23}
DueHours       == {0, 12}

At(day, hour) == day * HoursPerDay + hour

StatusClocks == { At(StatusFirstDay + d, h) : d \in 0..StatusNowDays, h \in ClockHours }
DueDates     == { At(StatusFirstDay + d, h) : d \in (0 - MaxBehind)..MaxAhead, h \in DueHours }

NoText  == Text("", 0, "")
NoRange == [startDate |-> 0, endDate |-> 0, period |-> "none"]
NoResp  == [kind |-> "none"]

\* State of the routine forms, the routines route, the task list sort and the
\* ordinal helpers while none of them has run.
NoForm    == [form |-> "none"]
NoErrors  == [by |-> "none"]
NoReq     == [method |-> "none"]
NoRoutine == [id |-> "none"]
NoSorted  == [kind |-> "none"]
NoSuffix  == [RoutineForm |-> "", Routines |-> "", AddTask |-> "", TaskDetailModal |-> ""]

\* State of the server's tables, of the requests it is handling, of the API
\* client and of the Dashboard while none of them is part of the run.
NoDb    == [tables |-> "none"]
NoCalls == <<>>
NoApi   == [token |-> "none"]
NoBoard == [kind |-> "none"]
IdleServer ==
  /\ db = NoDb
  /\ inflight = NoCalls
  /\ api = NoApi
  /\ board = NoBoard

IdleClient ==
  /\ formData = NoForm
  /\ errors = NoErrors
  /\ req = NoReq
  /\ routine = NoRoutine
  /\ taskList = <<>>
  /\ sortResult = NoSorted
  /\ num = 0
  /\ suffix = NoSuffix
  /\ IdleServer

InitStatus ==
  /\ now \in StatusClocks
  /\ tz = "UTC"
  /\ dueDate \in DueDates
  /\ completed \in BOOLEAN
  /\ status = "none"
  /\ statusText = NoText
  /\ tasks = {}
  /\ streak = -1
  /\ range = NoRange
  /\ resp = NoResp
  /\ IdleClient

\* A component evaluates getTaskStatus(task.dueDate, task.completed).
CallGetTaskStatus ==
  /\ status' = getTaskStatus(dueDate, completed, now)
  /\ UNCHANGED <<now, tz, dueDate, completed, statusText, tasks, streak, range, resp, formData, errors, req, routine, taskList, sortResult, num, suffix, db, inflight, api, board>>

\* A component evaluates getTaskStatusText(task.dueDate, task.completed).
CallGetTaskStatusText ==
  /\ statusText' = getTaskStatusText(dueDate, completed, now)
  /\ UNCHANGED <<now, tz, dueDate, completed, status, tasks, streak, range, resp, formData, errors, req, routine, taskList, sortResult, num, suffix, db, inflight, api, board>>

NextStatus == CallGetTaskStatus \/ CallGetTaskStatusText

SpecStatus == InitStatus /\ [][NextStatus]_vars

\* The calendar dates the claims speak of, as day numbers.
DueDay   == dueDate \div HoursPerDay
TodayDay == now \div HoursPerDay
DiffDays == DueDay - TodayDay

Buckets == {"completed", "overdue", "due-today", "due-soon", "future"}

\* C1: getTaskStatus returns one of the five buckets, and a completed task is
\* classified 'completed' whatever its due date is.
C1_OneBucketCompletedFirst ==
  status # "none" =>
     /\ status \in Buckets
     /\ completed => status = "completed"

C1_Witness == completed /\ status = "completed" /\ DiffDays < 0

\* C2: for an incomplete task the bucket is decided by diffDays = due calendar
\* date minus today's calendar date: overdue iff < 0, due-today iff = 0,
\* due-soon iff 1..3, future iff > 3.
C2_BucketByDiffDays ==
  (status # "none" /\ ~completed) =>
     /\ status = "overdue"   <=> DiffDays < 0
     /\ status = "due-today" <=> DiffDays = 0
     /\ status = "due-soon"  <=> (1 <= DiffDays /\ DiffDays <= 3)
     /\ status = "future"    <=> DiffDays > 3

C2_Witness ==
  /\ ~completed /\ status = "due-soon" /\ DiffDays = 3
  /\ CivilFromDays(DueDay)[1] # CivilFromDays(TodayDay)[1]

\* C3: getTaskStatusText partitions the not-overdue range of diffDays: 0 is
\* 'Due today', 1 'Due tomorrow', 2..7 days, 8..30 weeks (ceil(diffDays/7)),
\* above 30 months (ceil(diffDays/30)).
C3_TextPartition ==
  (statusText # NoText /\ ~completed /\ DiffDays >= 0) =>
     statusText =
       IF DiffDays = 0 THEN Text("Due today", 0, "")
       ELSE IF DiffDays = 1 THEN Text("Due tomorrow", 0, "")
       ELSE IF DiffDays <= 7 THEN Text("Due in", DiffDays, "days")
       ELSE IF DiffDays <= 30
            THEN Text("Due in", (DiffDays + 6) \div 7, "weeks")
       ELSE Text("Due in", (DiffDays + 29) \div 30, "months")

C3_Witness ==
  /\ ~completed /\ DiffDays = 31
  /\ statusText = Text("Due in", 2, "months")

\* C4: for an incomplete task whose due date lies before today the text is
\* 'Overdue by N day(s)' with N = today - due date in days, N >= 1, 'day' for
\* N = 1 and 'days' for N > 1.
C4_OverdueDays ==
  (statusText # NoText /\ ~completed /\ DiffDays < 0) =>
     /\ statusText.prefix = "Overdue by"
     /\ statusText.n = TodayDay - DueDay
     /\ statusText.n >= 1
     /\ statusText.unit = (IF statusText.n = 1 THEN "day" ELSE "days")
     /\ status # "none" => status = "overdue"

C4_Witness ==
  /\ ~completed /\ status = "overdue"
  /\ statusText = Text("Overdue by", 1, "day")
  /\ now % HoursPerDay = 0 /\ dueDate % HoursPerDay = 12

(***************************************************************************)
(* Resolving the report period: the date-range specification               *)
(***************************************************************************)
RangeDays == 97         \* days the clock may lie after RangeFirstDay

RangeFirstDay == DaysFromCivil(2023, 12, 28)
RangeClocks   == { At(RangeFirstDay + d, h) : d \in 0..RangeDays, h \in 0..(HoursPerDay - 1) }

InitRange ==
  /\ now \in RangeClocks
  /\ tz \in Zones
  /\ dueDate = 0
  /\ completed = FALSE
  /\ status = "none"
  /\ statusText = NoText
  /\ tasks = {}
  /\ streak = -1
  /\ range = NoRange
  /\ resp = NoResp
  /\ IdleClient

\* GET /api/reports resolves its period parameter.
CallGetDateRange ==
  \E period \in Periods :
     /\ range' = getDateRange(period, tz, now)
     /\ UNCHANGED <<now, tz, dueDate, completed, status, statusText, tasks, streak, resp, formData, errors, req, routine, taskList, sortResult, num, suffix, db, inflight, api, board>>

NextRange == CallGetDateRange

SpecRange == InitRange /\ [][NextRange]_vars

\* Local calendar day number and hour of day of an instant.
LocalDay(t)  == ToLocal(tz, t) \div HoursPerDay
LocalHour(t) == ToLocal(tz, t) % HoursPerDay

\* C9: 'week' starts exactly 7 days and 'month' exactly 30 days before now,
\* for every current date; 'today' starts at midnight of the current day and
\* 'all' before every task.
C9_RangeStart ==
  /\ range.period = "week"  => LocalDay(range.startDate) = LocalDay(now) - 7
  /\ range.period = "month" => LocalDay(range.startDate) = LocalDay(now) - 30
  /\ range.period = "today" =>
        /\ LocalDay(range.startDate) = LocalDay(now)
        /\ LocalHour(range.startDate) = 0
  /\ range.period = "all"   => range.startDate < At(RangeFirstDay, 0)

\* The parts of C9 the code satisfies.
C9_WeekTodayAll ==
  /\ range.period = "week"  => LocalDay(range.startDate) = LocalDay(now) - 7
  /\ range.period = "today" =>
        /\ LocalDay(range.startDate) = LocalDay(now)
        /\ LocalHour(range.startDate) = 0
  /\ range.period = "all"   => range.startDate < At(RangeFirstDay, 0)

(***************************************************************************)
(* The streak of productive days: the streak specification                 *)
(***************************************************************************)
MaxStreakTasks == 3     \* tasks in the history handed to calculateStreak
StreakSpan     == 3     \* days of history before the last clock day

\* Histories end on the day after a daylight-saving transition of 2024 in
\* America/New_York (11 March, 4 November UTC).
StreakLastDays == { DaysFromCivil(2024, 3, 11), DaysFromCivil(2024, 11, 4) }
StreakHours    == {4, 14, 23}

\* The subsets of S with at most k elements.
RECURSIVE SubsetsUpTo(_, _)
SubsetsUpTo(S, k) ==
  IF k = 0 THEN {{}}
  ELSE LET smaller == SubsetsUpTo(S, k - 1)
       IN  smaller \cup { s \cup {x} : s \in smaller, x \in S }

StreakTasksOf(last) ==
  { Task(At(last - d, h), At(last - d, h), c, Null, "none") :
      d \in 0..StreakSpan, h \in {2, 14}, c \in BOOLEAN }

InitStreak ==
  /\ tz \in Zones
  /\ \E last \in StreakLastDays :
        /\ now \in { At(last - d, h) : d \in 0..1, h \in StreakHours }
        /\ tasks \in SubsetsUpTo({ t \in StreakTasksOf(last) : t.updatedAt <= now },
                                MaxStreakTasks)
  /\ dueDate = 0
  /\ completed = FALSE
  /\ status = "none"
  /\ statusText = NoText
  /\ streak = -1
  /\ range = NoRange
  /\ resp = NoResp
  /\ IdleClient

\* GET /api/reports evaluates calculateStreak(allUserTasks).
CallCalculateStreak ==
  /\ streak' = calculateStreak(tasks, tz, now)
  /\ UNCHANGED <<now, tz, dueDate, completed, status, statusText, tasks, range, resp, formData, errors, req, routine, taskList, sortResult, num, suffix, db, inflight, api, board>>

NextStreak == CallCalculateStreak

SpecStreak == InitStreak /\ [][NextStreak]_vars

\* The distinct calendar days (local day numbers) of completed tasks.
ProductiveDaySet == { LocalDay(t.updatedAt) : t \in { u \in tasks : u.completed } }

\* Length of the maximal run of consecutive days in S ending at day d.
RunEndingAt(S, d) ==
  CHOOSE k \in 0..Cardinality(S) :
     /\ \A i \in 0..(k - 1) : (d - i) \in S
     /\ (d - k) \notin S

ExpectedStreak ==
  LET today == LocalDay(now)
  IN  IF today \in ProductiveDaySet THEN RunEndingAt(ProductiveDaySet, today)
      ELSE IF (today - 1) \in ProductiveDaySet
           THEN RunEndingAt(ProductiveDaySet, today - 1)
      ELSE 0

\* C5: calculateStreak returns 0 when the set of completion dates is empty or
\* holds neither today nor yesterday; otherwise the length of the maximal run
\* of consecutive dates ending at today if today is in the set, else at
\* yesterday.
C5_StreakIsRun == streak # -1 => streak = ExpectedStreak

\* C5 restricted to a host whose local time has no daylight-saving transition.
C5_StreakIsRunNoDst == (streak # -1 /\ tz = "UTC") => streak = ExpectedStreak

(***************************************************************************)
(* The report of one user: the report specification                        *)
(***************************************************************************)
MaxReportTasks == 2     \* tasks in the user's task table

\* The clock reads 31 March 2024, 12:00 or 02:00 UTC (the latter is still
\* 30 March in America/New_York).
ReportClocks == { At(DaysFromCivil(2024, 3, 31), h) : h \in {2, 12} }

\* Ages of a task at the time of the report, in hours: created within the
\* current day, the trailing week, the trailing 30 days, or before.
CreatedAges == { 1, 3 * HoursPerDay, 10 * HoursPerDay, 40 * HoursPerDay }

ReportTasksAt(clock) ==
  { Task(clock - age, clock - age, c, due, cat) :
      age \in CreatedAges, c \in BOOLEAN,
      due \in {Null, DateObj(clock - 2 * HoursPerDay)}, cat \in {"none", "c1"} }

InitReport ==
  /\ tz \in Zones
  /\ now \in ReportClocks
  /\ tasks \in SubsetsUpTo(ReportTasksAt(now), MaxReportTasks)
  /\ dueDate = 0
  /\ completed = FALSE
  /\ status = "none"
  /\ statusText = NoText
  /\ streak = -1
  /\ range = NoRange
  /\ resp = NoResp
  /\ IdleClient

\* GET /api/reports
GetReport ==
  \E period \in Periods, categoryId \in CategoryParams :
     /\ resp' = Report(tasks, tz, now, period, categoryId)
     /\ UNCHANGED <<now, tz, dueDate, completed, status, statusText, tasks, streak, range, formData, errors, req, routine, taskList, sortResult, num, suffix, db, inflight, api, board>>

NextReport == GetReport

SpecReport == InitReport /\ [][NextReport]_vars

InRange(p) == 0 <= p.num /\ p.num <= 100 * p.den

CardOk(card) ==
  /\ card.completed <= card.total
  /\ card.completed >= 0
  /\ InRange(card.completionRate)
  /\ card.total = 0 => card.completionRate.num = 0

\* C6: in every report completed + pending = total, completed <= total and
\* 0 <= completionRate <= 100 in the overview and in each summary card, with
\* completionRate = 0 when total = 0.
C6_CountsAndRates ==
  resp.kind = "report" =>
     /\ resp.overview.completedTasks + resp.overview.pendingTasks = resp.overview.totalTasks
     /\ resp.overview.completedTasks <= resp.overview.totalTasks
     /\ resp.overview.pendingTasks >= 0
     /\ 0 <= resp.overview.completionRate /\ resp.overview.completionRate <= 100 * 100
     /\ resp.overview.totalTasks = 0 => resp.overview.completionRate = 0
     /\ CardOk(resp.summary.today)
     /\ CardOk(resp.summary.week)
     /\ CardOk(resp.summary.month)

C6_Witness ==
  /\ resp.kind = "report"
  /\ resp.overview.totalTasks = 2 /\ resp.overview.completedTasks = 1
  /\ resp.overview.completionRate = 50 * 100
  /\ resp.summary.week.total = 1 /\ resp.summary.week.completed = 1
  /\ resp.summary.today.total = 0 /\ resp.summary.today.completionRate.num = 0

\* C7: productiveDays and currentStreak are computed over the whole task
\* history: for the same data and the same instant, reports requested with
\* other period or categoryId parameters carry the same two values.
C7_HistoryWide ==
  resp.kind = "report" =>
     \A p \in Periods, c \in CategoryParams :
        LET other == Report(tasks, tz, now, p, c)
        IN  other.kind = "report" =>
               /\ other.overview.productiveDays = resp.overview.productiveDays
               /\ other.overview.currentStreak = resp.overview.currentStreak

\* The part of C7 the code satisfies: currentStreak alone.
C7_StreakHistoryWide ==
  resp.kind = "report" =>
     \A p \in Periods, c \in CategoryParams :
        LET other == Report(tasks, tz, now, p, c)
        IN  other.kind = "report" =>
               other.overview.currentStreak = resp.overview.currentStreak

\* The user's tasks of the requested category created in the trailing hours.
CategoryTasks == { t \in tasks : resp.categoryId \in {"absent", "all"} \/ t.categoryId = resp.categoryId }
CreatedWithin(hours) == { t \in CategoryTasks : now - hours <= t.createdAt /\ t.createdAt <= now }
CreatedToday == { t \in CategoryTasks : LocalDay(t.createdAt) = LocalDay(now) /\ t.createdAt <= now }

CardCounts(card, ts) ==
  /\ card.total = Cardinality(ts)
  /\ card.completed = Cardinality({ t \in ts : t.completed })

\* C8: summary.today, summary.week and summary.month count the tasks created
\* today, in the trailing 7 days and in the trailing 30 days, whatever the
\* period parameter is.
C8_SummaryOwnWindow ==
  resp.kind = "report" =>
     /\ CardCounts(resp.summary.today, CreatedToday)
     /\ CardCounts(resp.summary.week, CreatedWithin(7 * HoursPerDay))
     /\ CardCounts(resp.summary.month, CreatedWithin(30 * HoursPerDay))

\* C8 for requests with period=all, where the base filter excludes nothing.
C8_SummaryOwnWindowAll ==
  (resp.kind = "report" /\ resp.period = "all") =>
     /\ CardCounts(resp.summary.today, CreatedToday)
     /\ CardCounts(resp.summary.week, CreatedWithin(7 * HoursPerDay))
     /\ CardCounts(resp.summary.month, CreatedWithin(30 * HoursPerDay))

\* The tasks of the filtered set that are overdue by calendar date.
OverdueByDate ==
  { t \in FilterTasks(tasks, getDateRange(resp.period, tz, now), resp.categoryId) :
      /\ ~t.completed
      /\ t.dueDate # Null
      /\ t.dueDate.value \div HoursPerDay < now \div HoursPerDay }

\* C10: the report's overdueTasks is the number of tasks of the filtered set
\* that are not completed, have a due date, and are due before today.
C10_OverdueCount ==
  resp.kind # "none" =>
     /\ resp.kind = "report"
     /\ resp.overview.overdueTasks = Cardinality(OverdueByDate)

\* What the code delivers: a payload is produced only when no task of the
\* filtered set is incomplete with a due date, and then overdueTasks is 0.
C10_ReportsCountNothing ==
  /\ resp.kind = "report" => (resp.overview.overdueTasks = 0 /\ OverdueByDate = {})
  /\ resp.kind = "error" => OverdueByDate # {}

\* C11: the reports aggregator never fails: for every task table delivered by
\* the persistence layer GET /api/reports answers with a report payload, never
\* with an error.
C11_ReportNeverFails == resp.kind # "none" => resp.kind = "report"

(***************************************************************************)
(* Reports over many categories: the category specification                *)
(***************************************************************************)
MaxPerCategory == 2     \* tasks of one category in the user's task table

\* Ages in hours of the first, second, ... task of a category: created within
\* the current day, the trailing week, the trailing 30 days, or before.
AgeOf == <<1, 3 * HoursPerDay, 10 * HoursPerDay, 40 * HoursPerDay>>

CategoryClock == At(DaysFromCivil(2024, 3, 31), 12)

\* The task table with cnt[i] tasks in the i-th category, the first cap of
\* each category completed, and one task without category.
TaskTableOf(clock, cnt, cap) ==
  UNION { { Task(clock - AgeOf[k], clock - AgeOf[k], k <= cap, Null, CategoryIds[i]) :
              k \in 1..cnt[i] } : i \in 1..NumCategories }
  \cup { Task(clock - AgeOf[1], clock - AgeOf[1], FALSE, Null, "none") }

InitCategories ==
  /\ tz = "UTC"
  /\ now = CategoryClock
  /\ \E cnt \in [1..NumCategories -> 0..MaxPerCategory], cap \in 0..MaxPerCategory :
        tasks = TaskTableOf(now, cnt, cap)
  /\ dueDate = 0
  /\ completed = FALSE
  /\ status = "none"
  /\ statusText = NoText
  /\ streak = -1
  /\ range = NoRange
  /\ resp = NoResp
  /\ IdleClient

SpecCategories == InitCategories /\ [][NextReport]_vars

\* The filtered set of the request that resp answers.
FilteredSet == FilterTasks(tasks, getDateRange(resp.period, tz, now), resp.categoryId)
TasksOfCategory(i) == { t \in FilteredSet : t.categoryId = CategoryTable[i].id }

\* C12: categoryDistribution has an entry for exactly the categories with at
\* least one task in the filtered set, with total the number of these tasks
\* and completed the number of them that are completed; categories without a
\* matching task are absent.
C12_CategoryDistribution ==
  resp.kind = "report" =>
     LET dist == resp.categoryDistribution
     IN  /\ \A j, k \in 1..Len(dist) : dist[j].name = dist[k].name => j = k
         /\ \A i \in 1..NumCategories :
               (TasksOfCategory(i) # {}) <=>
                  (\E j \in 1..Len(dist) : dist[j].name = CategoryTable[i].name)
         /\ \A j \in 1..Len(dist) :
               \E i \in 1..NumCategories :
                  /\ dist[j].name = CategoryTable[i].name
                  /\ dist[j].total = Cardinality(TasksOfCategory(i))
                  /\ dist[j].completed =
                        Cardinality({ t \in TasksOfCategory(i) : t.completed })
                  /\ dist[j].completed <= dist[j].total

C12_Witness ==
  /\ resp.kind = "report" /\ resp.period = "week"
  /\ Len(resp.categoryDistribution) \in 1..(NumCategories - 1)
  /\ \E j \in 1..Len(resp.categoryDistribution) :
        /\ resp.categoryDistribution[j].total = 2
        /\ resp.categoryDistribution[j].completed = 1
  /\ \E i \in 1..NumCategories :
        /\ TasksOfCategory(i) = {}
        /\ \E t \in tasks : t.categoryId = CategoryTable[i].id

\* C13: topCategories has at most 5 entries, each an entry of
\* categoryDistribution, in non-increasing order of total, and omits no
\* category whose total is strictly greater than that of a listed one.
C13_TopCategories ==
  resp.kind = "report" =>
     LET dist == resp.categoryDistribution
         top  == resp.topCategories
     IN  /\ Len(top) <= 5
         /\ \A j \in 1..Len(top) : \E k \in 1..Len(dist) : top[j] = dist[k]
         /\ \A j, k \in 1..Len(top) : top[j].name = top[k].name => j = k
         /\ \A j \in 1..(Len(top) - 1) : top[j].total >= top[j + 1].total
         /\ \A k \in 1..Len(dist) :
               (\A j \in 1..Len(top) : top[j] # dist[k]) =>
                  (\A j \in 1..Len(top) : dist[k].total <= top[j].total)

C13_Witness ==
  /\ resp.kind = "report"
  /\ Len(resp.categoryDistribution) > 5
  /\ Len(resp.topCategories) = 5
  /\ resp.topCategories[1].total > resp.topCategories[5].total
  /\ resp.categoryDistribution[Len(resp.categoryDistribution)].total
        > resp.categoryDistribution[1].total

(***************************************************************************)
(* Routine forms: RoutineForm.validateForm and TaskDetailModal.validateForm *)
(***************************************************************************)
\* A text is a sequence of characters; String.prototype.trim drops the white
\* space at both ends.
RECURSIVE TrimStart(_)
TrimStart(s) == IF s # <<>> /\ Head(s) = " " THEN TrimStart(Tail(s)) ELSE s

RECURSIVE TrimEnd(_)
TrimEnd(s) ==
  IF s # <<>> /\ s[Len(s)] = " " THEN TrimEnd(SubSeq(s, 1, Len(s) - 1)) ELSE s

Trim(s) == TrimEnd(TrimStart(s))

RecurrenceTypes == {"DAILY", "WEEKLY", "MONTHLY", "CUSTOM"}
DAYS_OF_WEEK    == <<"MON", "TUE", "WED", "THU", "FRI", "SAT", "SUN">>

Err(key, msg) == [key |-> key, msg |-> msg]

\* The value validateForm returns and the errors object it stores.
Validation(by, newErrors) ==
  [by |-> by, newErrors |-> newErrors, valid |-> newErrors = {}]

RoutineForm_validateForm_Day30(fd) ==
  Validation("RoutineForm",
    (IF Trim(fd.title) = <<>> THEN {Err("title", "Title is required")} ELSE {})
    \cup (IF fd.recurrenceType = "WEEKLY" /\ Len(fd.daysOfWeek) = 0
          THEN {Err("daysOfWeek", "Select at least one day for weekly routine")}
          ELSE {})
    \cup (IF fd.recurrenceType = "MONTHLY" /\ (fd.dayOfMonth < 1 \/ fd.dayOfMonth > 30)
          THEN {Err("dayOfMonth", "Day of month must be between 1 and 31")}
          ELSE {})
    \cup (IF fd.recurrenceType = "CUSTOM" /\ fd.interval < 1
          THEN {Err("interval", "Interval must be at least 1")}
          ELSE {}))

RoutineForm_validateForm(fd) ==
  Validation("RoutineForm",
    (IF Trim(fd.title) = <<>> THEN {Err("title", "Title is required")} ELSE {})
    \cup (IF fd.recurrenceType = "WEEKLY" /\ Len(fd.daysOfWeek) = 0
          THEN {Err("daysOfWeek", "Select at least one day for weekly routine")}
          ELSE {})
    \cup (IF fd.recurrenceType = "MONTHLY" /\ (fd.dayOfMonth < 1 \/ fd.dayOfMonth > 31)
          THEN {Err("dayOfMonth", "Day of month must be between 1 and 31")}
          ELSE {})
    \cup (IF fd.recurrenceType = "CUSTOM" /\ fd.interval < 1
          THEN {Err("interval", "Interval must be at least 1")}
          ELSE {}))

TaskDetailModal_validateForm(fd) ==
  Validation("TaskDetailModal",
    (IF Trim(fd.title) = <<>> THEN {Err("title", "Task title is required")} ELSE {})
    \cup (IF fd.taskType = "scheduled" /\ fd.dueDate = ""
          THEN {Err("dueDate", "Due date is required for scheduled tasks")}
          ELSE {})
    \cup (IF fd.taskType = "routine"
          THEN (IF fd.recurrenceType = "WEEKLY" /\ Len(fd.daysOfWeek) = 0
                THEN {Err("daysOfWeek", "Please select at least one day for weekly routines")}
                ELSE {})
               \cup (IF fd.recurrenceType = "MONTHLY"
                        /\ (fd.dayOfMonth < 1 \/ fd.dayOfMonth > 31)
                     THEN {Err("dayOfMonth", "Day of month must be between 1 and 31")}
                     ELSE {})
               \cup (IF fd.recurrenceType = "CUSTOM" /\ fd.interval < 1
                     THEN {Err("interval", "Interval must be at least 1 day")}
                     ELSE {})
          ELSE {}))

(***************************************************************************)
(* SpecForm: a routine form is filled in and submitted                     *)
(***************************************************************************)
FormDayMax      == 33
FormIntervalMax == 2
FormDaysMax     == 2

Titles      == { <<>>, <<" ">>, <<"G", "y", "m">>, <<" ", "G", "y", "m", " ">> }
FormTimes   == { "", "09:30" }
FormDueDates == { "", "2024-03-31" }
DaysPrefixes(n) == { SubSeq(DAYS_OF_WEEK, 1, k) : k \in 0..n }

\* The number inputs hold any integer the user types (an emptied input
\* compares as 0); min and max of the input element do not stop typing.
FormStates ==
  { [form |-> f, title |-> t, taskType |-> tt, dueDate |-> dd,
     recurrenceType |-> rt, daysOfWeek |-> dw, dayOfMonth |-> dm,
     interval |-> iv, time |-> tm] :
       f \in {"RoutineForm", "TaskDetailModal"}, t \in Titles,
       tt \in {"task", "routine", "scheduled"}, dd \in FormDueDates,
       rt \in RecurrenceTypes, dw \in DaysPrefixes(FormDaysMax),
       dm \in (-1)..FormDayMax, iv \in (-1)..FormIntervalMax, tm \in FormTimes }

InitForm ==
  /\ now = 0
  /\ tz = "UTC"
  /\ dueDate = 0
  /\ completed = FALSE
  /\ status = "none"
  /\ statusText = NoText
  /\ tasks = {}
  /\ streak = -1
  /\ range = NoRange
  /\ resp = NoResp
  /\ formData \in { fd \in FormStates :
                      fd.form = "RoutineForm" =>
                         fd.taskType = "routine" /\ fd.dueDate = "" }
  /\ errors = NoErrors
  /\ req = NoReq
  /\ routine = NoRoutine
  /\ taskList = <<>>
  /\ sortResult = NoSorted
  /\ num = 0
  /\ suffix = NoSuffix
  /\ IdleServer

\* handleSubmit of RoutineForm calls validateForm, which stores the errors.
RoutineFormValidate ==
  /\ formData.form = "RoutineForm"
  /\ errors' = RoutineForm_validateForm(formData)
  /\ UNCHANGED <<now, tz, dueDate, completed, status, statusText, tasks, streak,
                 range, resp, formData, req, routine, taskList, sortResult, num, suffix,
                 db, inflight, api, board>>

\* handleSave of TaskDetailModal calls validateForm, which stores the errors.
TaskDetailModalValidate ==
  /\ formData.form = "TaskDetailModal"
  /\ errors' = TaskDetailModal_validateForm(formData)
  /\ UNCHANGED <<now, tz, dueDate, completed, status, statusText, tasks, streak,
                 range, resp, formData, req, routine, taskList, sortResult, num, suffix,
                 db, inflight, api, board>>

NextForm == RoutineFormValidate \/ TaskDetailModalValidate

SpecForm == InitForm /\ [][NextForm]_vars

ErrorKeys == { e.key : e \in errors.newErrors }
TitleOk   == Trim(formData.title) # <<>>

\* C14: the routine form validators reject a WEEKLY schedule with no day, a
\* MONTHLY schedule with dayOfMonth below 1 or above 31 and a CUSTOM schedule
\* with interval below 1; with a title they accept DAILY whatever the other
\* fields hold, and MONTHLY with every dayOfMonth in 1..31, 31 included.
C14_FormValidator ==
  (errors.by # "none" /\ formData.taskType = "routine") =>
     /\ (formData.recurrenceType = "WEEKLY" /\ formData.daysOfWeek = <<>>) =>
           (~errors.valid /\ "daysOfWeek" \in ErrorKeys)
     /\ (formData.recurrenceType = "MONTHLY"
           /\ (formData.dayOfMonth < 1 \/ formData.dayOfMonth > 31)) =>
           (~errors.valid /\ "dayOfMonth" \in ErrorKeys)
     /\ (formData.recurrenceType = "CUSTOM" /\ formData.interval < 1) =>
           (~errors.valid /\ "interval" \in ErrorKeys)
     /\ (formData.recurrenceType = "DAILY" /\ TitleOk) =>
           (errors.valid /\ errors.newErrors = {})
     /\ (formData.recurrenceType = "MONTHLY" /\ formData.dayOfMonth \in 1..31
           /\ TitleOk) => errors.valid

C14_Witness ==
  /\ errors.by = "RoutineForm"
  /\ formData.recurrenceType = "MONTHLY"
  /\ formData.dayOfMonth = 31
  /\ formData.daysOfWeek = <<>>
  /\ formData.interval = 0
  /\ errors.valid

(***************************************************************************)
(* Routines route: POST /api/routines, PUT and DELETE /api/routines/:id    *)
(***************************************************************************)
\* An optional JSON member or a nullable column: None when it is missing
\* (undefined, NULL), Some(v) when it holds v.
None    == <<>>
Some(v) == <<v>>
Val(o)  == o[1]

\* A JSON value sent as schedule.daysOfWeek: an array of items, or a value
\* that is not an array.
ArrayOf(items) == [isArray |-> TRUE, items |-> items]
NotAnArray     == [isArray |-> FALSE, items |-> <<>>]

\* JSON.stringify / JSON.parse of the daysOfWeek array kept in a TEXT column.
JSONStringify(items) == [json |-> items]
JSONParse(text)      == text.json

Priorities == {"LOW", "MEDIUM", "HIGH", "URGENT"}

\* One validation chain: its message when it fails, None when it passes.
Check(fails, msg) == IF fails THEN Some(msg) ELSE None

\* errors.array()[0].msg of the chains in their order, None without error.
RECURSIVE FirstError(_)
FirstError(chain) ==
  IF chain = <<>> THEN None
  ELSE IF Head(chain) # None THEN Head(chain)
  ELSE FirstError(Tail(chain))

\* body('schedule.x'): the member, missing when schedule itself is missing.
Member(body, field) ==
  IF body.schedule = None THEN None ELSE Val(body.schedule)[field]

TitleEmpty(body) == body.title = None \/ Trim(Val(body.title)) = <<>>

PostValidators(body) ==
  FirstError(<<
    Check(TitleEmpty(body), "Title is required"),
    Check(body.priority = None \/ Val(body.priority) \notin Priorities,
          "Invalid priority"),
    Check(Member(body, "recurrenceType") = None
            \/ Val(Member(body, "recurrenceType")) \notin RecurrenceTypes,
          "Invalid recurrence type"),
    Check(Member(body, "interval") # None /\ Val(Member(body, "interval")) < 1,
          "Interval must be at least 1"),
    Check(Member(body, "daysOfWeek") # None
            /\ ~Val(Member(body, "daysOfWeek")).isArray,
          "Days of week must be an array"),
    Check(Member(body, "dayOfMonth") # None
            /\ Val(Member(body, "dayOfMonth")) \notin 1..31,
          "Day of month must be between 1 and 31") >>)

PutValidators(body) ==
  FirstError(<<
    Check(body.title # None /\ Trim(Val(body.title)) = <<>>,
          "Title cannot be empty"),
    Check(body.priority # None /\ Val(body.priority) \notin Priorities,
          "Invalid priority"),
    Check(Member(body, "recurrenceType") # None
            /\ Val(Member(body, "recurrenceType")) \notin RecurrenceTypes,
          "Invalid recurrence type"),
    Check(Member(body, "interval") # None /\ Val(Member(body, "interval")) < 1,
          "Interval must be at least 1"),
    Check(Member(body, "daysOfWeek") # None
            /\ ~Val(Member(body, "daysOfWeek")).isArray,
          "Days of week must be an array"),
    Check(Member(body, "dayOfMonth") # None
            /\ Val(Member(body, "dayOfMonth")) \notin 1..31,
          "Day of month must be between 1 and 31") >>)

\* JavaScript truthiness of an optional number, text or array: a missing
\* member, 0 and the empty text are falsy; every array is truthy.
TruthyNumber(o) == o # None /\ Val(o) # 0
TruthyText(o)   == o # None /\ Val(o) # <<>>

ErrorResponse(code, msg) == [kind |-> "error", status |-> code, error |-> msg]

\* routineWithParsedSchedule: the row with its schedule spread from the
\* truthy columns.
RoutineResponse(code, row) ==
  [kind |-> "routine", status |-> code, id |-> row.id,
   schedule |-> [recurrenceType |-> row.recurrenceType,
                 interval   |-> IF TruthyNumber(row.interval) THEN row.interval ELSE None,
                 daysOfWeek |-> IF row.daysOfWeek # None
                                THEN Some(JSONParse(Val(row.daysOfWeek))) ELSE None,
                 dayOfMonth |-> IF TruthyNumber(row.dayOfMonth) THEN row.dayOfMonth ELSE None,
                 time       |-> IF TruthyText(row.time) THEN row.time ELSE None]]

\* The row prisma.routine.create writes from scheduleData.
CreatedRow(body) ==
  LET schedule == Val(body.schedule)
  IN  [id             |-> "r1",
       title          |-> Trim(Val(body.title)),
       priority       |-> Val(body.priority),
       recurrenceType |-> Val(schedule.recurrenceType),
       interval       |-> IF TruthyNumber(schedule.interval)
                          THEN schedule.interval ELSE None,
       daysOfWeek     |-> IF schedule.daysOfWeek # None
                          THEN Some(JSONStringify(Val(schedule.daysOfWeek).items))
                          ELSE None,
       dayOfMonth     |-> IF TruthyNumber(schedule.dayOfMonth)
                          THEN schedule.dayOfMonth ELSE None,
       time           |-> IF TruthyText(schedule.time) THEN schedule.time ELSE None]

\* The row after prisma.routine.update with updateData.
UpdatedRow(row, body) ==
  LET hasSchedule == body.schedule # None
      schedule    == Val(body.schedule)
  IN  [id             |-> row.id,
       title          |-> IF body.title # None THEN Trim(Val(body.title)) ELSE row.title,
       priority       |-> IF body.priority # None THEN Val(body.priority) ELSE row.priority,
       recurrenceType |-> IF hasSchedule /\ schedule.recurrenceType # None
                          THEN Val(schedule.recurrenceType) ELSE row.recurrenceType,
       interval       |-> IF hasSchedule /\ schedule.interval # None
                          THEN (IF TruthyNumber(schedule.interval)
                                THEN schedule.interval ELSE None)
                          ELSE row.interval,
       daysOfWeek     |-> IF hasSchedule /\ schedule.daysOfWeek # None
                          THEN Some(JSONStringify(Val(schedule.daysOfWeek).items))
                          ELSE row.daysOfWeek,
       dayOfMonth     |-> IF hasSchedule /\ schedule.dayOfMonth # None
                          THEN (IF TruthyNumber(schedule.dayOfMonth)
                                THEN schedule.dayOfMonth ELSE None)
                          ELSE row.dayOfMonth,
       time           |-> IF hasSchedule /\ schedule.time # None
                          THEN (IF TruthyText(schedule.time) THEN schedule.time ELSE None)
                          ELSE row.time]

\* The handlers: the response and the routines row they leave behind.
Handled(response, row) == [resp |-> response, routine |-> row]

PostRoutine(body, row) ==
  LET error == PostValidators(body)
  IN  IF error # None THEN Handled(ErrorResponse(400, Val(error)), row)
      ELSE Handled(RoutineResponse(201, CreatedRow(body)), CreatedRow(body))

PutRoutine(body, row) ==
  LET error == PutValidators(body)
  IN  IF error # None THEN Handled(ErrorResponse(400, Val(error)), row)
      ELSE IF row = NoRoutine
      THEN Handled(ErrorResponse(404, "Routine not found"), row)
      ELSE Handled(RoutineResponse(200, UpdatedRow(row, body)), UpdatedRow(row, body))

DeleteRoutine(row) ==
  IF row = NoRoutine THEN Handled(ErrorResponse(404, "Routine not found"), row)
  ELSE Handled([kind |-> "deleted", status |-> 200, id |-> row.id], NoRoutine)

(***************************************************************************)
(* Requests to the routines route.  The handlers read and write one row,   *)
(* selected by id and user; rows do not interact, so the model follows the *)
(* row of one routine from its creation to its deletion.                   *)
(***************************************************************************)
ReqIntervalMax == 1
ReqDaysMax     == 1

T0930 == <<"0", "9", ":", "3", "0">>
T2599 == <<"2", "5", ":", "9", "9">>

Optional(S) == {None} \cup { Some(v) : v \in S }

ScheduleInputs ==
  [ recurrenceType : Optional(RecurrenceTypes \cup {"YEARLY"}),
    interval       : Optional(0..ReqIntervalMax),
    daysOfWeek     : Optional({NotAnArray}
                                \cup { ArrayOf(d) : d \in DaysPrefixes(ReqDaysMax) }),
    dayOfMonth     : Optional({15, 32}),
    time           : Optional({T0930, T2599}) ]

Bodies ==
  { [title |-> tp[1], priority |-> tp[2], schedule |-> sc] :
      tp \in { <<Some(<<"G", "y", "m">>), Some("MEDIUM")>>,
               <<Some(<<" ">>), Some("MEDIUM")>>,
               <<None, None>> },
      sc \in Optional(ScheduleInputs) }

Request(method, body) == [method |-> method, body |-> body]

InitIdle ==
  /\ now = 0
  /\ tz = "UTC"
  /\ dueDate = 0
  /\ completed = FALSE
  /\ status = "none"
  /\ statusText = NoText
  /\ tasks = {}
  /\ streak = -1
  /\ range = NoRange
  /\ resp = NoResp
  /\ IdleClient

\* POST /api/routines, for the routine the model follows.
Post(body) ==
  /\ routine = NoRoutine
  /\ resp' = PostRoutine(body, routine).resp
  /\ routine' = PostRoutine(body, routine).routine
  /\ UNCHANGED <<now, tz, dueDate, completed, status, statusText, tasks, streak,
                 range, formData, errors, taskList, sortResult, num, suffix,
                 db, inflight, api, board>>

\* PUT /api/routines/:id
Put(body) ==
  /\ resp' = PutRoutine(body, routine).resp
  /\ routine' = PutRoutine(body, routine).routine
  /\ UNCHANGED <<now, tz, dueDate, completed, status, statusText, tasks, streak,
                 range, formData, errors, taskList, sortResult, num, suffix,
                 db, inflight, api, board>>

\* DELETE /api/routines/:id
Delete ==
  /\ resp' = DeleteRoutine(routine).resp
  /\ routine' = DeleteRoutine(routine).routine
  /\ UNCHANGED <<now, tz, dueDate, completed, status, statusText, tasks, streak,
                 range, formData, errors, taskList, sortResult, num, suffix,
                 db, inflight, api, board>>

(***************************************************************************)
(* SpecRoutines: any sequence of create, update and delete requests        *)
(***************************************************************************)
PostRoutines   == \E body \in Bodies : Post(body) /\ UNCHANGED req
PutRoutines    == \E body \in Bodies : Put(body) /\ UNCHANGED req
DeleteRoutines == Delete /\ UNCHANGED req

NextRoutines == PostRoutines \/ PutRoutines \/ DeleteRoutines

SpecRoutines == InitIdle /\ [][NextRoutines]_vars

(***************************************************************************)
(* SpecRequest: one create or update request, kept with its response.  The *)
(* routine it meets is absent or was created by an earlier POST.           *)
(***************************************************************************)
SeedSchedules ==
  { [recurrenceType |-> Some("WEEKLY"), interval |-> None,
     daysOfWeek |-> Some(ArrayOf(<<"MON">>)), dayOfMonth |-> None,
     time |-> Some(T0930)],
    [recurrenceType |-> Some("CUSTOM"), interval |-> Some(1),
     daysOfWeek |-> None, dayOfMonth |-> None, time |-> None] }

SeedRows ==
  { CreatedRow([title |-> Some(<<"G", "y", "m">>), priority |-> Some("MEDIUM"),
                schedule |-> Some(sc)]) : sc \in SeedSchedules }

InitRequest ==
  /\ now = 0
  /\ tz = "UTC"
  /\ dueDate = 0
  /\ completed = FALSE
  /\ status = "none"
  /\ statusText = NoText
  /\ tasks = {}
  /\ streak = -1
  /\ range = NoRange
  /\ resp = NoResp
  /\ formData = NoForm
  /\ errors = NoErrors
  /\ req = NoReq
  /\ routine \in {NoRoutine} \cup SeedRows
  /\ taskList = <<>>
  /\ sortResult = NoSorted
  /\ num = 0
  /\ suffix = NoSuffix
  /\ IdleServer

SendPost ==
  /\ req = NoReq
  /\ \E body \in Bodies : Post(body) /\ req' = Request("POST", body)

SendPut ==
  /\ req = NoReq
  /\ \E body \in Bodies : Put(body) /\ req' = Request("PUT", body)

NextRequest == SendPost \/ SendPut

SpecRequest == InitRequest /\ [][NextRequest]_vars

\* The schedule rules of the validator, in their order, on a proposed schedule.
DigitChars == <<"0", "1", "2", "3", "4", "5", "6", "7", "8", "9">>
IsDigit(c) == \E d \in 1..10 : DigitChars[d] = c
DigitValue(c) == (CHOOSE d \in 1..10 : DigitChars[d] = c) - 1

IsHHMM(t) ==
  /\ Len(t) = 5
  /\ t[3] = ":"
  /\ \A i \in {1, 2, 4, 5} : IsDigit(t[i])
  /\ 10 * DigitValue(t[1]) + DigitValue(t[2]) <= 23
  /\ 10 * DigitValue(t[4]) + DigitValue(t[5]) <= 59

WeekdayCodes == { DAYS_OF_WEEK[i] : i \in 1..Len(DAYS_OF_WEEK) }

TypeRuleFails(sc) ==
  sc.recurrenceType = None \/ Val(sc.recurrenceType) \notin RecurrenceTypes

WeeklyRuleFails(sc) ==
  /\ sc.recurrenceType = Some("WEEKLY")
  /\ \/ sc.daysOfWeek = None
     \/ ~Val(sc.daysOfWeek).isArray
     \/ Val(sc.daysOfWeek).items = <<>>
     \/ \E i \in 1..Len(Val(sc.daysOfWeek).items) :
           Val(sc.daysOfWeek).items[i] \notin WeekdayCodes

MonthlyRuleFails(sc) ==
  /\ sc.recurrenceType = Some("MONTHLY")
  /\ (sc.dayOfMonth = None \/ Val(sc.dayOfMonth) \notin 1..31)

CustomRuleFails(sc) ==
  /\ sc.recurrenceType = Some("CUSTOM")
  /\ (sc.interval = None \/ Val(sc.interval) < 1)

TimeRuleFails(sc) == sc.time # None /\ ~IsHHMM(Val(sc.time))

FirstFailingRule(sc) ==
  IF TypeRuleFails(sc) THEN "InvalidRecurrenceType"
  ELSE IF WeeklyRuleFails(sc) THEN "EmptyWeeklyDays"
  ELSE IF MonthlyRuleFails(sc) THEN "DayOfMonthOutOfRange"
  ELSE IF CustomRuleFails(sc) THEN "IntervalTooSmall"
  ELSE IF TimeRuleFails(sc) THEN "InvalidTimeFormat"
  ELSE "none"

\* The message that stands for each rule in the application.
RuleMessage(rule) ==
  CASE rule = "InvalidRecurrenceType" -> "Invalid recurrence type"
    [] rule = "EmptyWeeklyDays"       -> "Select at least one day for weekly routine"
    [] rule = "DayOfMonthOutOfRange"  -> "Day of month must be between 1 and 31"
    [] rule = "IntervalTooSmall"      -> "Interval must be at least 1"
    [] OTHER                          -> "Invalid time format"

\* The observed request proposes a schedule to an existing or new routine.
Proposes ==
  /\ req.method # "none"
  /\ req.body.schedule # None
  /\ (req.method = "PUT" => Val(req.body.schedule).recurrenceType # None)
Proposed == Val(req.body.schedule)
Rejected == resp.kind = "error" /\ resp.status = 400
Found    == req.method = "POST" \/ resp.status # 404

\* C15: a create or update request whose schedule violates the recurrence
\* type rule, the WEEKLY rule (daysOfWeek missing or empty), the MONTHLY rule
\* (dayOfMonth missing or out of range) or the CUSTOM rule (interval missing
\* or below 1) is answered with a validation error, and a rejected POST
\* stores no routine.
C15_ViolationsRejected ==
  (Proposes /\ Found
    /\ (TypeRuleFails(Proposed) \/ WeeklyRuleFails(Proposed)
          \/ MonthlyRuleFails(Proposed) \/ CustomRuleFails(Proposed))) =>
     (Rejected /\ (req.method = "POST" => routine = NoRoutine))

\* C16: for a POST with valid title and priority, a schedule that passes the
\* rules of its own recurrence type and the time rule is accepted whatever
\* the fields of the other types hold, and a rejected schedule is answered
\* with the one message of its first failing rule in the order recurrence
\* type, WEEKLY days, MONTHLY dayOfMonth, CUSTOM interval, time.
C16_FirstFailingRuleOnly ==
  (Proposes /\ req.method = "POST"
    /\ ~TitleEmpty(req.body) /\ req.body.priority # None) =>
     /\ FirstFailingRule(Proposed) = "none" => ~Rejected
     /\ Rejected =>
          /\ FirstFailingRule(Proposed) # "none"
          /\ resp.error = RuleMessage(FirstFailingRule(Proposed))

\* C17: a request whose schedule has a time that is not a 24-hour HH:MM
\* value is rejected, and the stored routine never holds such a time.
C17_MalformedTimeRejected ==
  /\ (Proposes /\ Found /\ TimeRuleFails(Proposed)) => Rejected
  /\ (routine # NoRoutine /\ routine.time # None) => IsHHMM(Val(routine.time))

\* C18: the stored routine's schedule is a well-formed single variant: WEEKLY
\* has a non-empty daysOfWeek, MONTHLY a dayOfMonth in 1..31, CUSTOM an
\* interval of at least 1, and no field of another variant is set.
C18_StoredScheduleWellFormed ==
  routine # NoRoutine =>
     /\ routine.recurrenceType \in RecurrenceTypes
     /\ routine.recurrenceType = "WEEKLY" <=> routine.daysOfWeek # None
     /\ routine.recurrenceType = "MONTHLY" <=> routine.dayOfMonth # None
     /\ routine.recurrenceType = "CUSTOM" <=> routine.interval # None
     /\ routine.daysOfWeek # None => JSONParse(Val(routine.daysOfWeek)) # <<>>
     /\ routine.dayOfMonth # None => Val(routine.dayOfMonth) \in 1..31
     /\ routine.interval # None => Val(routine.interval) >= 1

(***************************************************************************)
(* dateUtils.ts: sortTasksByDueDate                                        *)
(***************************************************************************)
\* A task as the API delivers it to the page: dueDate is null or an ISO
\* string, held as the instant it denotes.
DateString(t) == [type |-> "string", value |-> t]
ListTask(id, done, due) == [id |-> id, completed |-> done, dueDate |-> due]

\* new Date(x).getTime(): new Date(null) is the epoch.
GetTime(x) == IF x.type = "null" THEN 0 ELSE x.value

\* The comparator passed to Array.prototype.sort.
compareTasks(a, b, ascending) ==
  IF a.completed /\ ~b.completed THEN 1
  ELSE IF ~a.completed /\ b.completed THEN -1
  ELSE IF ascending THEN GetTime(a.dueDate) - GetTime(b.dueDate)
  ELSE GetTime(b.dueDate) - GetTime(a.dueDate)

\* Array.prototype.sort is stable: each element goes behind the elements
\* that do not compare greater than it.
RECURSIVE SortedCopy(_, _)
SortedCopy(s, ascending) ==
  IF s = <<>> THEN <<>>
  ELSE LET done == SortedCopy(SubSeq(s, 1, Len(s) - 1), ascending)
           e    == s[Len(s)]
           k    == Cardinality({ i \in 1..Len(done) :
                                   compareTasks(done[i], e, ascending) <= 0 })
       IN  SubSeq(done, 1, k) \o <<e>> \o SubSeq(done, k + 1, Len(done))

\* Variant: the completion flag follows the requested order.
sortTasksByDueDate_FlagFollowsOrder(ts, ascending) ==
  [tasks  |-> ts,
   result |-> IF ascending THEN SortedCopy(ts, TRUE)
              ELSE LET up == SortedCopy(ts, TRUE)
                   IN  [ i \in 1..Len(up) |-> up[Len(up) + 1 - i] ]]

\* [...tasks].sort(...): the argument array after the call and the returned
\* array.
sortTasksByDueDate(ts, ascending) ==
  [tasks |-> ts, result |-> SortedCopy(ts, ascending)]

(***************************************************************************)
(* SpecSort: the task page sorts its filtered list by due date             *)
(***************************************************************************)
MaxSortTasks == 3
SortDays     == 3

SortDueDates ==
  {Null} \cup { DateString(At(DaysFromCivil(2024, 3, 1) + d, 0)) : d \in 1..SortDays }

RECURSIVE TaskLists(_)
TaskLists(n) ==
  IF n = 0 THEN { <<>> }
  ELSE LET shorter == TaskLists(n - 1)
       IN  shorter \cup
           { Append(l, ListTask(n, done, due)) :
               l \in { x \in shorter : Len(x) = n - 1 },
               done \in BOOLEAN, due \in SortDueDates }

InitSort ==
  /\ now = 0
  /\ tz = "UTC"
  /\ dueDate = 0
  /\ completed = FALSE
  /\ status = "none"
  /\ statusText = NoText
  /\ tasks = {}
  /\ streak = -1
  /\ range = NoRange
  /\ resp = NoResp
  /\ formData = NoForm
  /\ errors = NoErrors
  /\ req = NoReq
  /\ routine = NoRoutine
  /\ taskList \in TaskLists(MaxSortTasks)
  /\ sortResult = NoSorted
  /\ num = 0
  /\ suffix = NoSuffix
  /\ IdleServer

\* filtered = sortTasksByDueDate(filtered, filters.sortOrder === 'asc')
CallSortTasksByDueDate ==
  \E ascending \in BOOLEAN :
     /\ sortResult' = [kind |-> "sorted", ascending |-> ascending, given |-> taskList,
                       result |-> sortTasksByDueDate(taskList, ascending).result]
     /\ taskList' = sortTasksByDueDate(taskList, ascending).tasks
     /\ UNCHANGED <<now, tz, dueDate, completed, status, statusText, tasks, streak,
                    range, resp, formData, errors, req, routine, num, suffix,
                    db, inflight, api, board>>

NextSort == CallSortTasksByDueDate

SpecSort == InitSort /\ [][NextSort]_vars

Occurrences(s, t) == Cardinality({ i \in 1..Len(s) : s[i] = t })

\* C19: the returned list is a permutation of the given one, every incomplete
\* task stands before every completed one in both orders, two tasks of one
\* completion group that have a due date stand in ascending (descending)
\* order of due date, and the given array is left as it was.
C19_SortContract ==
  sortResult.kind = "sorted" =>
     LET given == sortResult.given
         out   == sortResult.result
     IN  /\ taskList = given
         /\ Len(out) = Len(given)
         /\ \A i \in 1..Len(given) :
               Occurrences(out, given[i]) = Occurrences(given, given[i])
         /\ \A i, j \in 1..Len(out) :
               i < j => ~(out[i].completed /\ ~out[j].completed)
         /\ \A i, j \in 1..Len(out) :
               (/\ i < j
                /\ out[i].completed = out[j].completed
                /\ out[i].dueDate.type = "string"
                /\ out[j].dueDate.type = "string") =>
                  IF sortResult.ascending
                  THEN out[i].dueDate.value <= out[j].dueDate.value
                  ELSE out[i].dueDate.value >= out[j].dueDate.value

C19_Witness ==
  /\ sortResult.kind = "sorted"
  /\ ~sortResult.ascending
  /\ Len(sortResult.given) = 3
  /\ sortResult.given[1].completed /\ ~sortResult.given[2].completed
  /\ ~sortResult.given[3].completed
  /\ sortResult.given[2].dueDate.type = "string"
  /\ sortResult.given[3].dueDate.type = "string"
  /\ sortResult.given[2].dueDate.value < sortResult.given[3].dueDate.value
  /\ sortResult.result = <<sortResult.given[3], sortResult.given[2], sortResult.given[1]>>
  /\ taskList = sortResult.given

(***************************************************************************)
(* getOrdinalSuffix: the copies in RoutineForm, the Routines page, AddTask *)
(* and TaskDetailModal                                                     *)
(***************************************************************************)
\* Variant: the test for 11 is left out.
RoutineForm_getOrdinalSuffix_No11(n) ==
  LET j == n % 10
      k == n % 100
  IN  IF j = 1 THEN "st"
      ELSE IF j = 2 /\ k # 12 THEN "nd"
      ELSE IF j = 3 /\ k # 13 THEN "rd"
      ELSE "th"

RoutineForm_getOrdinalSuffix(n) ==
  LET j == n % 10
      k == n % 100
  IN  IF j = 1 /\ k # 11 THEN "st"
      ELSE IF j = 2 /\ k # 12 THEN "nd"
      ELSE IF j = 3 /\ k # 13 THEN "rd"
      ELSE "th"

Routines_getOrdinalSuffix(n) ==
  LET j == n % 10
      k == n % 100
  IN  IF j = 1 /\ k # 11 THEN "st"
      ELSE IF j = 2 /\ k # 12 THEN "nd"
      ELSE IF j = 3 /\ k # 13 THEN "rd"
      ELSE "th"

AddTask_getOrdinalSuffix(n) ==
  LET j == n % 10
      k == n % 100
  IN  IF j = 1 /\ k # 11 THEN "st"
      ELSE IF j = 2 /\ k # 12 THEN "nd"
      ELSE IF j = 3 /\ k # 13 THEN "rd"
      ELSE "th"

TaskDetailModal_getOrdinalSuffix(n) ==
  LET j == n % 10
      k == n % 100
  IN  IF j = 1 /\ k # 11 THEN "st"
      ELSE IF j = 2 /\ k # 12 THEN "nd"
      ELSE IF j = 3 /\ k # 13 THEN "rd"
      ELSE "th"

(***************************************************************************)
(* SpecOrdinal: the components render the day of month of a routine        *)
(***************************************************************************)
MaxDayOfMonth == 31

InitOrdinal ==
  /\ now = 0
  /\ tz = "UTC"
  /\ dueDate = 0
  /\ completed = FALSE
  /\ status = "none"
  /\ statusText = NoText
  /\ tasks = {}
  /\ streak = -1
  /\ range = NoRange
  /\ resp = NoResp
  /\ formData = NoForm
  /\ errors = NoErrors
  /\ req = NoReq
  /\ routine = NoRoutine
  /\ taskList = <<>>
  /\ sortResult = NoSorted
  /\ num \in 1..MaxDayOfMonth
  /\ suffix = NoSuffix
  /\ IdleServer

OrdinalFrame ==
  UNCHANGED <<now, tz, dueDate, completed, status, statusText, tasks, streak, range,
              resp, formData, errors, req, routine, taskList, sortResult, num,
              db, inflight, api, board>>

RoutineFormRender ==
  /\ suffix' = [suffix EXCEPT !.RoutineForm = RoutineForm_getOrdinalSuffix(num)]
  /\ OrdinalFrame

RoutinesRender ==
  /\ suffix' = [suffix EXCEPT !.Routines = Routines_getOrdinalSuffix(num)]
  /\ OrdinalFrame

AddTaskRender ==
  /\ suffix' = [suffix EXCEPT !.AddTask = AddTask_getOrdinalSuffix(num)]
  /\ OrdinalFrame

TaskDetailModalRender ==
  /\ suffix' = [suffix EXCEPT !.TaskDetailModal = TaskDetailModal_getOrdinalSuffix(num)]
  /\ OrdinalFrame

NextOrdinal ==
  RoutineFormRender \/ RoutinesRender \/ AddTaskRender \/ TaskDetailModalRender

SpecOrdinal == InitOrdinal /\ [][NextOrdinal]_vars

Copies == {"RoutineForm", "Routines", "AddTask", "TaskDetailModal"}

\* C20: for a day of month in 1..31 every copy of getOrdinalSuffix returns
\* "st" for 1, 21 and 31, "nd" for 2 and 22, "rd" for 3 and 23 and "th" for
\* every other value, 11, 12 and 13 included; so the copies agree.
C20_OrdinalSuffix ==
  num \in 1..31 =>
     /\ \A c \in Copies :
           suffix[c] # "" =>
              suffix[c] = (IF num \in {1, 21, 31} THEN "st"
                           ELSE IF num \in {2, 22} THEN "nd"
                           ELSE IF num \in {3, 23} THEN "rd"
                           ELSE "th")
     /\ \A c, d \in Copies : (suffix[c] # "" /\ suffix[d] # "") => suffix[c] = suffix[d]

C20_Witness ==
  /\ num = 11
  /\ \A c \in Copies : suffix[c] = "th"

(***************************************************************************)
(* The server's tables.  tasks and routines carry the userId of their      *)
(* owner and an optional categoryId; categories have no owner column.  A   *)
(* NULL categoryId is written "null", the word the category routes accept  *)
(* for it in reassignTo.                                                   *)
(***************************************************************************)
Users        == {"A", "B"}
CategoryKeys == {"c1", "c2"}
MaxTasks     == 2
MaxRoutines  == 1
TaskIds      == 1..MaxTasks
RoutineIds   == 1..MaxRoutines

NoTask    == [userId |-> "none", categoryId |-> "null", completed |-> FALSE]
NoRoutineRow == [userId |-> "none", categoryId |-> "null"]
TaskRow(u, c, done) == [userId |-> u, categoryId |-> c, completed |-> done]
RoutineRow(u, c)    == [userId |-> u, categoryId |-> c]

\* The ids of the rows a table holds, of one owner, of one category.
Rows(table)          == { id \in DOMAIN table : table[id].userId # "none" }
Owned(table, u)      == { id \in DOMAIN table : table[id].userId = u }
InCategory(table, c) == { id \in Rows(table) : table[id].categoryId = c }

\* FOREIGN KEY (categoryId) REFERENCES categories (id): NULL or an existing id.
ForeignKeyOk(d, c) == c = "null" \/ c \in d.categories

\* updateMany({where: {categoryId: from}, data: {categoryId: to}}) on one
\* table: one statement, which fails as a whole on a foreign key violation.
updateMany(d, table, from, to) ==
  IF InCategory(d[table], from) # {} /\ ~ForeignKeyOk(d, to)
    THEN [ok |-> FALSE, db |-> d]
    ELSE [ok |-> TRUE,
          db |-> [d EXCEPT ![table] =
                    [id \in DOMAIN d[table] |->
                       IF id \in InCategory(d[table], from)
                         THEN [d[table][id] EXCEPT !.categoryId = to]
                         ELSE d[table][id]]]]

\* prisma.category.delete: ON DELETE SET NULL clears the rows that still
\* reference the category.
category_delete(d, id) ==
  [categories |-> d.categories \ {id},
   tasks      |-> [t \in DOMAIN d.tasks |->
                     IF t \in InCategory(d.tasks, id)
                       THEN [d.tasks[t] EXCEPT !.categoryId = "null"]
                       ELSE d.tasks[t]],
   routines   |-> [r \in DOMAIN d.routines |->
                     IF r \in InCategory(d.routines, id)
                       THEN [d.routines[r] EXCEPT !.categoryId = "null"]
                       ELSE d.routines[r]]]

\* What a handler hands back: the tables after it and its response.
\* The response names the row (id) or the category (categoryId) it is about.
NoKey            == [id |-> 0, categoryId |-> ""]
RowKey(id)       == [id |-> id, categoryId |-> ""]
CategoryKey(id)  == [id |-> 0, categoryId |-> id]
Answer(d, u, route, key, code, data) ==
  [db |-> d, resp |-> [user |-> u, route |-> route, id |-> key.id, categoryId |-> key.categoryId,
                       code |-> code, data |-> data]]
\* catch (error) { next(error) }
Failed(d, u, route, key) == Answer(d, u, route, key, 500, {})

\* The row of a task or routine as a response shows it.
Shown(table, id) == [id |-> id, row |-> table[id]]

(***************************************************************************)
(* routes/tasks.js                                                         *)
(***************************************************************************)
Tasks_list(d, u) ==
  Answer(d, u, "GET /api/tasks", NoKey, 200, { Shown(d.tasks, id) : id \in Owned(d.tasks, u) })

Tasks_get(d, u, id) ==
  IF id \notin Owned(d.tasks, u)
    THEN Answer(d, u, "GET /api/tasks/:id", RowKey(id), 404, {})
    ELSE Answer(d, u, "GET /api/tasks/:id", RowKey(id), 200, {Shown(d.tasks, id)})

\* prisma.task.create gives the row a fresh id.
Tasks_create(d, u, id, categoryId) ==
  IF ~ForeignKeyOk(d, categoryId)
    THEN Failed(d, u, "POST /api/tasks", RowKey(id))
    ELSE LET after == [d EXCEPT !.tasks[id] = TaskRow(u, categoryId, FALSE)]
         IN  Answer(after, u, "POST /api/tasks", RowKey(id), 201, {Shown(after.tasks, id)})

Tasks_update(d, u, id, categoryId) ==
  IF id \notin Owned(d.tasks, u)
    THEN Answer(d, u, "PUT /api/tasks/:id", RowKey(id), 404, {})
    ELSE IF ~ForeignKeyOk(d, categoryId)
      THEN Failed(d, u, "PUT /api/tasks/:id", RowKey(id))
      ELSE LET after == [d EXCEPT !.tasks[id].categoryId = categoryId]
           IN  Answer(after, u, "PUT /api/tasks/:id", RowKey(id), 200, {Shown(after.tasks, id)})

Tasks_complete(d, u, id, done) ==
  IF id \notin Owned(d.tasks, u)
    THEN Answer(d, u, "PATCH /api/tasks/:id/complete", RowKey(id), 404, {})
    ELSE LET after == [d EXCEPT !.tasks[id].completed = done]
         IN  Answer(after, u, "PATCH /api/tasks/:id/complete", RowKey(id), 200, {Shown(after.tasks, id)})

Tasks_delete(d, u, id) ==
  IF id \notin Owned(d.tasks, u)
    THEN Answer(d, u, "DELETE /api/tasks/:id", RowKey(id), 404, {})
    ELSE Answer([d EXCEPT !.tasks[id] = NoTask], u, "DELETE /api/tasks/:id", RowKey(id), 200, {})

(***************************************************************************)
(* routes/routines.js: the routines router                                 *)
(***************************************************************************)
Routines_list(d, u) ==
  Answer(d, u, "GET /api/routines", NoKey, 200, { Shown(d.routines, id) : id \in Owned(d.routines, u) })

Routines_get(d, u, id) ==
  IF id \notin Owned(d.routines, u)
    THEN Answer(d, u, "GET /api/routines/:id", RowKey(id), 404, {})
    ELSE Answer(d, u, "GET /api/routines/:id", RowKey(id), 200, {Shown(d.routines, id)})

\* if (categoryId) { findUnique ... 400 'Invalid category' }
Routines_create(d, u, id, categoryId) ==
  IF categoryId # "null" /\ categoryId \notin d.categories
    THEN Answer(d, u, "POST /api/routines", RowKey(id), 400, {})
    ELSE LET after == [d EXCEPT !.routines[id] = RoutineRow(u, categoryId)]
         IN  Answer(after, u, "POST /api/routines", RowKey(id), 201, {Shown(after.routines, id)})

Routines_update(d, u, id, categoryId) ==
  IF id \notin Owned(d.routines, u)
    THEN Answer(d, u, "PUT /api/routines/:id", RowKey(id), 404, {})
    ELSE IF categoryId # "null" /\ categoryId \notin d.categories
      THEN Answer(d, u, "PUT /api/routines/:id", RowKey(id), 400, {})
      ELSE LET after == [d EXCEPT !.routines[id].categoryId = categoryId]
           IN  Answer(after, u, "PUT /api/routines/:id", RowKey(id), 200, {Shown(after.routines, id)})

Routines_delete(d, u, id) ==
  IF id \notin Owned(d.routines, u)
    THEN Answer(d, u, "DELETE /api/routines/:id", RowKey(id), 404, {})
    ELSE Answer([d EXCEPT !.routines[id] = NoRoutineRow], u, "DELETE /api/routines/:id", RowKey(id), 200, {})

(***************************************************************************)
(* routes/routines.js: the categories router.  reassignTo is "" when the   *)
(* query has none.                                                         *)
(***************************************************************************)
\* _count: {select: {tasks: true}} counts the rows of the table, whoever
\* owns them.
Count(table, c) == Cardinality(InCategory(table, c))

Categories_list(d, u) ==
  Answer(d, u, "GET /api/categories", NoKey, 200,
         { [categoryId |-> c, _count |-> [tasks |-> Count(d.tasks, c)]] : c \in d.categories })

Categories_get(d, u, id) ==
  IF id \notin d.categories
    THEN Answer(d, u, "GET /api/categories/:id", CategoryKey(id), 404, {})
    ELSE Answer(d, u, "GET /api/categories/:id", CategoryKey(id), 200,
                {[categoryId |-> id,
                  tasks  |-> { Shown(d.tasks, t) : t \in Owned(d.tasks, u) \cap InCategory(d.tasks, id) },
                  _count |-> [tasks |-> Count(d.tasks, id)]]})

Categories_analytics(d, u, id) ==
  IF id \notin d.categories
    THEN Answer(d, u, "GET /api/categories/:id/analytics", CategoryKey(id), 404, {})
    ELSE LET mine == Owned(d.tasks, u) \cap InCategory(d.tasks, id)
         IN  Answer(d, u, "GET /api/categories/:id/analytics", CategoryKey(id), 200,
                    {[totalTasks     |-> Cardinality(mine),
                      completedTasks |-> Cardinality({ t \in mine : d.tasks[t].completed }),
                      pendingTasks   |-> Cardinality({ t \in mine : ~d.tasks[t].completed }),
                      totalRoutines  |-> Cardinality(Owned(d.routines, u) \cap InCategory(d.routines, id))]})

\* The steps of DELETE /api/categories/:id, each one awaited call.
Delete_counts(d, id) == [tasks |-> Count(d.tasks, id), routines |-> Count(d.routines, id)]
Delete_refused(d, id, reassignTo) ==
  (Delete_counts(d, id).tasks > 0 \/ Delete_counts(d, id).routines > 0) /\ reassignTo = ""

Categories_delete(d, u, id, reassignTo) ==
  LET route  == "DELETE /api/categories/:id"
      counts == Delete_counts(d, id)
      moved  == updateMany(d, "tasks", id, reassignTo)
      both   == updateMany(moved.db, "routines", id, reassignTo)
      done(e) == Answer(category_delete(e, id), u, route, CategoryKey(id), 200,
                        {[reassignedTasks |-> counts.tasks, reassignedRoutines |-> counts.routines]})
  IN  IF id \notin d.categories THEN Answer(d, u, route, CategoryKey(id), 404, {})
      ELSE IF Delete_refused(d, id, reassignTo) THEN Answer(d, u, route, CategoryKey(id), 400, {counts})
      ELSE IF reassignTo = "" THEN done(d)
      ELSE IF ~moved.ok THEN Failed(d, u, route, CategoryKey(id))
      ELSE IF ~both.ok THEN Failed(moved.db, u, route, CategoryKey(id))
      ELSE done(both.db)

Categories_merge(d, u, sourceId, targetId) ==
  LET route  == "POST /api/categories/:id/merge/:targetId"
      counts == Delete_counts(d, sourceId)
      moved  == updateMany(d, "tasks", sourceId, targetId)
      both   == updateMany(moved.db, "routines", sourceId, targetId)
  IN  IF sourceId = targetId THEN Answer(d, u, route, CategoryKey(sourceId), 400, {})
      ELSE IF sourceId \notin d.categories THEN Answer(d, u, route, CategoryKey(sourceId), 404, {})
      ELSE IF targetId \notin d.categories THEN Answer(d, u, route, CategoryKey(sourceId), 404, {})
      ELSE IF ~moved.ok THEN Failed(d, u, route, CategoryKey(sourceId))
      ELSE IF ~both.ok THEN Failed(moved.db, u, route, CategoryKey(sourceId))
      ELSE Answer(category_delete(both.db, sourceId), u, route, CategoryKey(sourceId), 200,
                  {[mergedTasks |-> counts.tasks, mergedRoutines |-> counts.routines]})

(***************************************************************************)
(* SpecServer: two users send requests to the server, one at a time.  The  *)
(* database starts with the seeded categories and no task or routine.      *)
(***************************************************************************)
CategoryInputs == CategoryKeys \cup {"null"}
ReassignInputs == CategoryKeys \cup {"null", ""}

InitServer ==
  /\ now = 0
  /\ tz = "UTC"
  /\ dueDate = 0
  /\ completed = FALSE
  /\ status = "none"
  /\ statusText = NoText
  /\ tasks = {}
  /\ streak = -1
  /\ range = NoRange
  /\ resp = NoResp
  /\ formData = NoForm
  /\ errors = NoErrors
  /\ req = NoReq
  /\ routine = NoRoutine
  /\ taskList = <<>>
  /\ sortResult = NoSorted
  /\ num = 0
  /\ suffix = NoSuffix
  /\ db = [categories |-> CategoryKeys,
           tasks      |-> [id \in TaskIds |-> NoTask],
           routines   |-> [id \in RoutineIds |-> NoRoutineRow]]
  /\ inflight = NoCalls
  /\ api = NoApi
  /\ board = NoBoard

ServerFrame ==
  UNCHANGED <<now, tz, dueDate, completed, status, statusText, tasks, streak, range,
              formData, errors, req, routine, taskList, sortResult, num, suffix,
              inflight, api, board>>

Handle(answer) ==
  /\ db' = answer.db
  /\ resp' = answer.resp
  /\ ServerFrame

GetTasks      == \E u \in Users : Handle(Tasks_list(db, u))
GetTask       == \E u \in Users, id \in TaskIds : Handle(Tasks_get(db, u, id))
PostTask      == \E u \in Users, c \in CategoryInputs :
                    \E id \in TaskIds \ Rows(db.tasks) : Handle(Tasks_create(db, u, id, c))
PutTask       == \E u \in Users, id \in TaskIds, c \in CategoryInputs : Handle(Tasks_update(db, u, id, c))
PatchTask     == \E u \in Users, id \in TaskIds, done \in BOOLEAN : Handle(Tasks_complete(db, u, id, done))
DeleteTask    == \E u \in Users, id \in TaskIds : Handle(Tasks_delete(db, u, id))
GetRoutines   == \E u \in Users : Handle(Routines_list(db, u))
GetRoutine    == \E u \in Users, id \in RoutineIds : Handle(Routines_get(db, u, id))
PostRoutineRow == \E u \in Users, c \in CategoryInputs :
                    \E id \in RoutineIds \ Rows(db.routines) : Handle(Routines_create(db, u, id, c))
PutRoutineRow == \E u \in Users, id \in RoutineIds, c \in CategoryInputs : Handle(Routines_update(db, u, id, c))
DeleteRoutineRow == \E u \in Users, id \in RoutineIds : Handle(Routines_delete(db, u, id))
GetCategories == \E u \in Users : Handle(Categories_list(db, u))
GetCategory   == \E u \in Users, id \in CategoryKeys : Handle(Categories_get(db, u, id))
GetAnalytics  == \E u \in Users, id \in CategoryKeys : Handle(Categories_analytics(db, u, id))
DeleteCategory == \E u \in Users, id \in CategoryKeys, to \in ReassignInputs : Handle(Categories_delete(db, u, id, to))
MergeCategory == \E u \in Users, id \in CategoryKeys, to \in CategoryKeys : Handle(Categories_merge(db, u, id, to))

NextServer ==
  \/ GetTasks \/ GetTask \/ PostTask \/ PutTask \/ PatchTask \/ DeleteTask
  \/ GetRoutines \/ GetRoutine \/ PostRoutineRow \/ PutRoutineRow \/ DeleteRoutineRow
  \/ GetCategories \/ GetCategory \/ GetAnalytics \/ DeleteCategory \/ MergeCategory

SpecServer == InitServer /\ [][NextServer]_vars

\* The database as it would be if only user u held tasks and routines.
OwnOnly(d, u) ==
  [d EXCEPT !.tasks    = [id \in DOMAIN d.tasks |->
                            IF d.tasks[id].userId = u THEN d.tasks[id] ELSE NoTask],
            !.routines = [id \in DOMAIN d.routines |->
                            IF d.routines[id].userId = u THEN d.routines[id] ELSE NoRoutineRow]]

ReadRoutes ==
  {"GET /api/tasks", "GET /api/tasks/:id", "GET /api/routines", "GET /api/routines/:id",
   "GET /api/categories", "GET /api/categories/:id", "GET /api/categories/:id/analytics"}
TaskIdRoutes ==
  {"GET /api/tasks/:id", "PUT /api/tasks/:id", "PATCH /api/tasks/:id/complete", "DELETE /api/tasks/:id"}
RoutineIdRoutes ==
  {"GET /api/routines/:id", "PUT /api/routines/:id", "DELETE /api/routines/:id"}

\* The response a read request gets from database d.
ReadOf(r, d) ==
  CASE r.route = "GET /api/tasks"              -> Tasks_list(d, r.user).resp
    [] r.route = "GET /api/tasks/:id"          -> Tasks_get(d, r.user, r.id).resp
    [] r.route = "GET /api/routines"           -> Routines_list(d, r.user).resp
    [] r.route = "GET /api/routines/:id"       -> Routines_get(d, r.user, r.id).resp
    [] r.route = "GET /api/categories"         -> Categories_list(d, r.user).resp
    [] r.route = "GET /api/categories/:id"     -> Categories_get(d, r.user, r.categoryId).resp
    [] r.route = "GET /api/categories/:id/analytics" -> Categories_analytics(d, r.user, r.categoryId).resp

\* C21: each user sees only their own data: every response to a read request
\* of a user is the response the same request gets when the other users hold
\* no task and no routine, and a request on the id of a task or routine of
\* another user is answered 404.
C21_UsersSeeOnlyOwnData ==
  [][ /\ resp'.route \in ReadRoutes => resp' = ReadOf(resp', OwnOnly(db, resp'.user))
      /\ ( /\ resp'.route \in TaskIdRoutes
           /\ db.tasks[resp'.id].userId \notin {"none", resp'.user} ) => resp'.code = 404
      /\ ( /\ resp'.route \in RoutineIdRoutes
           /\ db.routines[resp'.id].userId \notin {"none", resp'.user} ) => resp'.code = 404
    ]_vars

\* C22: no request of a user changes a task or a routine of another user.
C22_OthersRowsUnchanged ==
  [][ /\ \A id \in TaskIds :
           db.tasks[id].userId \notin {"none", resp'.user} => db'.tasks[id] = db.tasks[id]
      /\ \A id \in RoutineIds :
           db.routines[id].userId \notin {"none", resp'.user} => db'.routines[id] = db.routines[id]
    ]_vars

(***************************************************************************)
(* Editing tasks and reading the report: SpecEdit.  One user creates,      *)
(* completes and edits tasks while the clock advances, and loads the       *)
(* report.  The task rows carry what the report reads plus id and title.   *)
(***************************************************************************)
MaxEditTasks == 1      \* tasks the user creates
EditDays     == 2      \* days the clock advances
EditTitles   == {"Gym", "Gym at 7"}
EditStart    == At(DaysFromCivil(2024, 3, 29), 2)
EditClocks   == { EditStart + k * HoursPerDay : k \in 0..EditDays }

StoredTask(id, title, clock) ==
  [id |-> id, title |-> title, createdAt |-> clock, updatedAt |-> clock,
   completed |-> FALSE, dueDate |-> Null, categoryId |-> "none"]

\* Variant: update leaves updatedAt as it is.
prisma_task_update_KeepUpdatedAt(row, data, clock) ==
  [row EXCEPT !.title     = IF data.title # None THEN Val(data.title) ELSE @,
              !.completed = IF data.completed # None THEN Val(data.completed) ELSE @]

\* prisma.task.update({where: {id}, data}): the members of data are written
\* and the updatedAt column takes the time of the update.
prisma_task_update(row, data, clock) ==
  [row EXCEPT !.title     = IF data.title # None THEN Val(data.title) ELSE @,
              !.completed = IF data.completed # None THEN Val(data.completed) ELSE @,
              !.updatedAt = clock]

\* PUT /api/tasks/:id builds data from the body: ...(title && {title}),
\* ...(completed !== undefined && {completed}).
Put_data(body) ==
  [title     |-> IF body.title # None /\ Val(body.title) # "" THEN body.title ELSE None,
   completed |-> body.completed]

\* PATCH /api/tasks/:id/complete: data: {completed}
Patch_data(done) == [title |-> None, completed |-> Some(done)]

EditBodies == [title : Optional(EditTitles \ {"Gym"}), completed : Optional(BOOLEAN)]

InitEdit ==
  /\ tz \in Zones
  /\ now = EditStart
  /\ tasks = {}
  /\ dueDate = 0
  /\ completed = FALSE
  /\ status = "none"
  /\ statusText = NoText
  /\ streak = -1
  /\ range = NoRange
  /\ resp = NoResp
  /\ IdleClient

EditFrame ==
  UNCHANGED <<tz, dueDate, completed, status, statusText, streak, range,
              formData, errors, routine, taskList, sortResult, num, suffix,
              db, inflight, api, board>>

\* Time passes.
Tick ==
  /\ now + HoursPerDay \in EditClocks
  /\ now' = now + HoursPerDay
  /\ UNCHANGED <<tasks, resp, req>>
  /\ EditFrame

\* POST /api/tasks
CreateTask ==
  \E id \in 1..MaxEditTasks :
     /\ \A t \in tasks : t.id # id
     /\ tasks' = tasks \cup {StoredTask(id, "Gym", now)}
     /\ req' = [method |-> "POST", id |-> id, task |-> StoredTask(id, "Gym", now)]
     /\ resp' = [kind |-> "task", code |-> 201, id |-> id]
     /\ UNCHANGED now
     /\ EditFrame

\* PUT /api/tasks/:id from the form that shows task t.
EditTask ==
  \E t \in tasks, body \in EditBodies :
     /\ tasks' = (tasks \ {t}) \cup {prisma_task_update(t, Put_data(body), now)}
     /\ req' = [method |-> "PUT", id |-> t.id, task |-> t]
     /\ resp' = [kind |-> "task", code |-> 200, id |-> t.id]
     /\ UNCHANGED now
     /\ EditFrame

\* PATCH /api/tasks/:id/complete from the checkbox of task t.
CompleteTask ==
  \E t \in tasks, done \in BOOLEAN :
     /\ tasks' = (tasks \ {t}) \cup {prisma_task_update(t, Patch_data(done), now)}
     /\ req' = [method |-> "PATCH", id |-> t.id, task |-> t]
     /\ resp' = [kind |-> "task", code |-> 200, id |-> t.id]
     /\ UNCHANGED now
     /\ EditFrame

\* GET /api/reports?period=all
LoadReport ==
  /\ resp' = Report(tasks, tz, now, "all", "all")
  /\ UNCHANGED <<now, tasks, req>>
  /\ EditFrame

NextEdit == Tick \/ CreateTask \/ EditTask \/ CompleteTask \/ LoadReport

SpecEdit == InitEdit /\ [][NextEdit]_vars

\* C23: the completion date the report uses is the date of the last update:
\* when a completed task whose updatedAt lies on an earlier day is updated
\* and stays completed, the day of the update is a productive day and the
\* earlier day is productive no more on account of this task: the task alone
\* gives productiveDays 1 and currentStreak 1, and the report over the whole
\* table counts the day of the update with the days of the other tasks.
C23_EditMovesCompletionDate ==
  [][ \A t \in tasks, e \in tasks' :
        ( /\ e.id = t.id
          /\ e # t
          /\ t.completed
          /\ e.completed
          /\ LocalDay(t.updatedAt) < LocalDay(now) )
        => LET alone == Report({e}, tz, now, "all", "all").overview
               rest  == { toDateString(tz, o.updatedAt) : o \in { x \in tasks \ {t} : x.completed } }
               whole == Report(tasks', tz, now, "all", "all").overview
           IN  /\ alone.productiveDays = 1
               /\ alone.currentStreak = 1
               /\ whole.productiveDays = Cardinality(rest \cup {toDateString(tz, now)})
    ]_vars

\* A task completed two days ago got a new title today, and the report
\* loaded afterwards shows a streak of one day.
C23_Witness ==
  /\ req.method = "PUT"
  /\ req.task.completed
  /\ LocalDay(req.task.updatedAt) = LocalDay(now) - 2
  /\ \E e \in tasks :
       /\ e.id = req.id
       /\ e.completed
       /\ e.title # req.task.title
       /\ e.updatedAt = now
  /\ resp.kind = "report"
  /\ resp.overview.productiveDays = 1
  /\ resp.overview.currentStreak = 1

(***************************************************************************)
(* Rendering one task of the task list: SpecRender.  The row first asks    *)
(* getTaskStatus for the badge and then getTaskStatusText for the label;   *)
(* each reads the clock itself, and the clock may advance in between.      *)
(***************************************************************************)
RenderTicks    == 2     \* hours the clock may advance during the rendering
RenderDueDays  == 5     \* due dates up to this many days after the first day
RenderFirstDay == DaysFromCivil(2024, 1, 10)
RenderClocks   == { At(RenderFirstDay, h) : h \in {10, 22, 23} }
RenderInstants == { c + k : c \in RenderClocks, k \in 0..RenderTicks }
RenderDueDates == { At(RenderFirstDay + d, h) : d \in (0 - 1)..RenderDueDays, h \in DueHours }

InitRender ==
  /\ now \in RenderClocks
  /\ tz = "UTC"
  /\ dueDate \in RenderDueDates
  /\ completed \in BOOLEAN
  /\ status = "none"
  /\ statusText = NoText
  /\ tasks = {}
  /\ streak = -1
  /\ range = NoRange
  /\ resp = NoResp
  /\ IdleClient

RenderFrame ==
  UNCHANGED <<tz, dueDate, completed, tasks, streak, range, resp, formData, errors, req,
              routine, taskList, sortResult, num, suffix, db, inflight, api, board>>

\* const status = getTaskStatus(task.dueDate, task.completed)
RenderStatus ==
  /\ status = "none"
  /\ status' = getTaskStatus(dueDate, completed, now)
  /\ UNCHANGED <<now, statusText>>
  /\ RenderFrame

\* {getTaskStatusText(task.dueDate, task.completed)}
RenderStatusText ==
  /\ status # "none"
  /\ statusText = NoText
  /\ statusText' = getTaskStatusText(dueDate, completed, now)
  /\ UNCHANGED <<now, status>>
  /\ RenderFrame

\* The clock advances by an hour while the list is rendered.
ClockTick ==
  /\ statusText = NoText
  /\ now + 1 \in RenderInstants
  /\ now' = now + 1
  /\ UNCHANGED <<status, statusText>>
  /\ RenderFrame

NextRender == RenderStatus \/ RenderStatusText \/ ClockTick

SpecRender == InitRender /\ [][NextRender]_vars

\* C24: one rendering of a task is a function of the task and one value of
\* 'now': the badge and the label shown together are what getTaskStatus and
\* getTaskStatusText give for one and the same clock reading.
C24_OneNowPerRendering ==
  (status # "none" /\ statusText # NoText) =>
     \E clock \in RenderInstants :
        /\ status = getTaskStatus(dueDate, completed, clock)
        /\ statusText = getTaskStatusText(dueDate, completed, clock)

(***************************************************************************)
(* The Dashboard's overdue section: SpecDashboard.  loadDashboardData      *)
(* selects the overdue tasks, the section renders 'Overdue by N days' for  *)
(* each of them, and the task list shows the same task through             *)
(* getTaskStatus and getTaskStatusText.  The clock stands still.           *)
(***************************************************************************)
DashboardBehind   == 3     \* due dates up to this many days before the first clock day
DashboardDueDates == { At(StatusFirstDay + d, h) : d \in (0 - DashboardBehind)..1, h \in DueHours }

\* tasks.filter(task => { if (!task.dueDate || task.completed) return false;
\*                        return task.dueDate.split('T')[0] < todayString })
Dashboard_overdueData(due, done, clock) ==
  /\ ~done
  /\ StrLess(ISODate(due), ISODate(clock))

\* Math.ceil((Date.now() - (task.dueDate?.getTime() || 0)) / (1000 * 60 * 60 * 24))
Dashboard_overdueDays(due, clock) == Ceil(clock - due, HoursPerDay)

InitDashboard ==
  /\ now \in StatusClocks
  /\ tz = "UTC"
  /\ dueDate \in DashboardDueDates
  /\ completed \in BOOLEAN
  /\ status = "none"
  /\ statusText = NoText
  /\ tasks = {}
  /\ streak = -1
  /\ range = NoRange
  /\ resp = NoResp
  /\ IdleClient

DashboardFrame ==
  UNCHANGED <<now, tz, dueDate, completed, status, statusText, tasks, streak, range, resp,
              formData, errors, req, routine, taskList, sortResult, num, suffix,
              db, inflight, api>>

\* loadDashboardData: setOverdueTasks(overdueFormatted)
LoadDashboardData ==
  /\ board' = [kind |-> "loaded", overdue |-> Dashboard_overdueData(dueDate, completed, now), days |-> 0]
  /\ DashboardFrame

\* The overdue section renders the label of a listed task.
RenderOverdueLabel ==
  /\ board.kind = "loaded"
  /\ board.overdue
  /\ board' = [board EXCEPT !.kind = "rendered", !.days = Dashboard_overdueDays(dueDate, now)]
  /\ DashboardFrame

NextDashboard ==
  LoadDashboardData \/ RenderOverdueLabel \/ CallGetTaskStatus \/ CallGetTaskStatusText

SpecDashboard == InitDashboard /\ [][NextDashboard]_vars

\* C25: the overdue computations agree: an incomplete task is in the
\* Dashboard's overdue list iff getTaskStatus calls it overdue, and the N of
\* 'Overdue by N days' on the Dashboard is the overdueDays of
\* getTaskStatusText.
C25_OverdueAgrees ==
  /\ (board.kind # "none" /\ status # "none" /\ ~completed) =>
        (board.overdue <=> status = "overdue")
  /\ (board.kind = "rendered" /\ statusText # NoText) =>
        /\ statusText.prefix = "Overdue by"
        /\ board.days = statusText.n

(***************************************************************************)
(* The category routes, one awaited call at a time: SpecCategoryOps.  The  *)
(* server handles up to MaxCalls DELETE and merge requests at once; each   *)
(* request advances by one database call per step, and a PUT on a task may *)
(* run between any two steps.  A request keeps the category ids of its     *)
(* URL, the counts it read, the counts its updateMany calls returned and   *)
(* the status it answered.                                                 *)
(***************************************************************************)
MaxCalls == 2
Calls    == 1..MaxCalls

NoCall == [route |-> "none", categoryId |-> "", to |-> "", pc |-> "none",
           counts |-> [tasks |-> 0, routines |-> 0],
           moved  |-> [tasks |-> 0, routines |-> 0], code |-> 0]

Respond(call, code) == [call EXCEPT !.pc = "done", !.code = code]

\* DELETE /api/categories/:id up to the first write: findUnique and the checks.
Delete_begin(d, id, reassignTo) ==
  LET call == [NoCall EXCEPT !.route = "DELETE", !.categoryId = id, !.to = reassignTo,
                             !.counts = Delete_counts(d, id)]
  IN  IF id \notin d.categories THEN Respond(call, 404)
      ELSE IF Delete_refused(d, id, reassignTo) THEN Respond(call, 400)
      ELSE [call EXCEPT !.pc = IF reassignTo # "" THEN "tasks" ELSE "delete"]

\* POST /api/categories/:id/merge/:targetId up to the first write.
Merge_begin(d, sourceId, targetId) ==
  LET call == [NoCall EXCEPT !.route = "MERGE", !.categoryId = sourceId, !.to = targetId,
                             !.counts = Delete_counts(d, sourceId)]
  IN  IF sourceId = targetId THEN Respond(call, 400)
      ELSE IF sourceId \notin d.categories THEN Respond(call, 404)
      ELSE IF targetId \notin d.categories THEN Respond(call, 404)
      ELSE [call EXCEPT !.pc = "tasks"]

\* await prisma.task.updateMany(...) / await prisma.routine.updateMany(...)
Call_updateMany(d, call, table, next) ==
  LET res == updateMany(d, table, call.categoryId, call.to)
  IN  IF ~res.ok THEN [db |-> d, call |-> Respond(call, 500)]
      ELSE [db   |-> res.db,
            call |-> [call EXCEPT !.pc = next,
                                  !.moved[table] = Count(d[table], call.categoryId)]]

\* await prisma.category.delete(...) and the response; deleting a row that
\* is gone throws.
Call_delete(d, call) ==
  IF call.categoryId \notin d.categories
    THEN [db |-> d, call |-> Respond(call, 500)]
    ELSE [db |-> category_delete(d, call.categoryId), call |-> Respond(call, 200)]

OpsTables ==
  { [categories |-> CategoryKeys, tasks |-> t, routines |-> r] :
      t \in { [id \in TaskIds |-> IF id = 1 THEN row ELSE NoTask] :
               row \in {NoTask, TaskRow("A", "c1", FALSE)} },
      r \in { [id \in RoutineIds |-> IF id = 1 THEN row ELSE NoRoutineRow] :
               row \in {NoRoutineRow, RoutineRow("A", "c1")} } }

InitCategoryOps ==
  /\ now = 0
  /\ tz = "UTC"
  /\ dueDate = 0
  /\ completed = FALSE
  /\ status = "none"
  /\ statusText = NoText
  /\ tasks = {}
  /\ streak = -1
  /\ range = NoRange
  /\ resp = NoResp
  /\ formData = NoForm
  /\ errors = NoErrors
  /\ req = NoReq
  /\ routine = NoRoutine
  /\ taskList = <<>>
  /\ sortResult = NoSorted
  /\ num = 0
  /\ suffix = NoSuffix
  /\ db \in OpsTables
  /\ inflight = [c \in Calls |-> NoCall]
  /\ api = NoApi
  /\ board = NoBoard

OpsFrame ==
  UNCHANGED <<now, tz, dueDate, completed, status, statusText, tasks, streak, range,
              formData, errors, req, routine, taskList, sortResult, num, suffix, api, board>>

DeleteBegin ==
  \E c \in Calls, id \in CategoryKeys, reassignTo \in ReassignInputs :
     /\ inflight[c].pc \in {"none", "done"}
     /\ inflight' = [inflight EXCEPT ![c] = Delete_begin(db, id, reassignTo)]
     /\ UNCHANGED <<db, resp>>
     /\ OpsFrame

MergeBegin ==
  \E c \in Calls, id \in CategoryKeys, targetId \in CategoryKeys :
     /\ inflight[c].pc \in {"none", "done"}
     /\ inflight' = [inflight EXCEPT ![c] = Merge_begin(db, id, targetId)]
     /\ UNCHANGED <<db, resp>>
     /\ OpsFrame

Advance(c, step) ==
  /\ db' = step.db
  /\ inflight' = [inflight EXCEPT ![c] = step.call]
  /\ UNCHANGED resp
  /\ OpsFrame

MoveTasks ==
  \E c \in Calls :
     /\ inflight[c].pc = "tasks"
     /\ Advance(c, Call_updateMany(db, inflight[c], "tasks", "routines"))

MoveRoutines ==
  \E c \in Calls :
     /\ inflight[c].pc = "routines"
     /\ Advance(c, Call_updateMany(db, inflight[c], "routines", "delete"))

DeleteRow ==
  \E c \in Calls :
     /\ inflight[c].pc = "delete"
     /\ Advance(c, Call_delete(db, inflight[c]))

\* PUT /api/tasks/:id {categoryId} by the owner of the task.
AssignTask ==
  \E id \in TaskIds, c \in CategoryInputs :
     /\ id \in Rows(db.tasks)
     /\ db' = Tasks_update(db, db.tasks[id].userId, id, c).db
     /\ resp' = [kind |-> "task", code |-> Tasks_update(db, db.tasks[id].userId, id, c).resp.code]
     /\ UNCHANGED inflight
     /\ OpsFrame

NextCategoryOps ==
  DeleteBegin \/ MergeBegin \/ MoveTasks \/ MoveRoutines \/ DeleteRow \/ AssignTask

SpecCategoryOps == InitCategoryOps /\ [][NextCategoryOps]_vars

\* C26: category deletion is all-or-nothing: a DELETE on a category that has
\* tasks or routines and no reassignTo answers 400; a DELETE that fails has
\* changed no row (its updateMany calls moved nothing); after a DELETE that
\* succeeded no task and no routine references the deleted category.
C26_DeleteAllOrNothing ==
  \A c \in Calls :
     (inflight[c].route = "DELETE" /\ inflight[c].pc = "done") =>
        /\ ( /\ inflight[c].counts.tasks + inflight[c].counts.routines > 0
             /\ inflight[c].to = "" ) => inflight[c].code = 400
        /\ inflight[c].code # 200 =>
              /\ inflight[c].moved.tasks = 0
              /\ inflight[c].moved.routines = 0
        /\ inflight[c].code = 200 =>
              /\ inflight[c].categoryId \notin db.categories
              /\ InCategory(db.tasks, inflight[c].categoryId) = {}
              /\ InCategory(db.routines, inflight[c].categoryId) = {}

\* C27: a merge loses nothing: when a merge answers 200 the source category
\* is gone and every task and routine that still referenced the source when
\* it was deleted references the target; no step of a merge changes the
\* number of tasks or routines; a merge of a category with itself answers
\* 400 and changes nothing.
C27_MergeLosesNothing ==
  [][ \A c \in Calls :
        inflight'[c].route = "MERGE" =>
           /\ ( /\ inflight[c].pc = "delete"
                /\ inflight'[c].pc = "done"
                /\ inflight'[c].code = 200 ) =>
                 /\ inflight[c].categoryId \notin db'.categories
                 /\ \A id \in InCategory(db.tasks, inflight[c].categoryId) :
                       db'.tasks[id].categoryId = inflight[c].to
                 /\ \A id \in InCategory(db.routines, inflight[c].categoryId) :
                       db'.routines[id].categoryId = inflight[c].to
           /\ inflight'[c] # inflight[c] =>
                 /\ Rows(db'.tasks) = Rows(db.tasks)
                 /\ Rows(db'.routines) = Rows(db.routines)
           /\ ( /\ inflight[c].pc \in {"none", "done"}
                /\ inflight'[c] # inflight[c]
                /\ inflight'[c].categoryId = inflight'[c].to ) =>
                 /\ inflight'[c].pc = "done"
                 /\ inflight'[c].code = 400
                 /\ db' = db
    ]_vars

(***************************************************************************)
(* routes/settings.js, one awaited call at a time: SpecSettings.  One user *)
(* has up to MaxCalls settings requests in flight.  The user_settings      *)
(* table is a set of rows; user_settings_userId_key makes an insert fail   *)
(* when the user already has a row.                                        *)
(***************************************************************************)
Defaults == [theme |-> "system", language |-> "en", timezone |-> "America/New_York"]
Triple(row) == [theme |-> row.theme, language |-> row.language, timezone |-> row.timezone]
NoTriple == [theme |-> "", language |-> "", timezone |-> ""]

SettingsRow(id, u, values) ==
  [id |-> id, userId |-> u, theme |-> values.theme, language |-> values.language,
   timezone |-> values.timezone]

\* findUnique({where: {userId}}): the row of the user, if there is one.
SettingsOf(table, u) == { row \in table : row.userId = u }

\* What a PUT may carry; "blue" is no theme.
SettingsBodies ==
  [theme : Optional({"dark", "blue"}), language : Optional({"zh"}), timezone : Optional({"UTC"})]

\* The validators of PUT /api/settings.
Settings_valid(body) ==
  /\ body.theme # None => Val(body.theme) \in {"light", "dark", "system"}
  /\ body.language # None => Val(body.language) \in {"en", "zh"}

\* theme || 'system' and ...(theme && {theme}): the body's value when it has
\* one, else the fallback.
OrElse(o, fallback) == IF o # None /\ Val(o) # "" THEN Val(o) ELSE fallback
Merged(body, values) ==
  [theme    |-> OrElse(body.theme, values.theme),
   language |-> OrElse(body.language, values.language),
   timezone |-> OrElse(body.timezone, values.timezone)]

NoSettingsCall == [route |-> "none", body |-> [theme |-> None, language |-> None, timezone |-> None],
                   pc |-> "none", code |-> 0, data |-> NoTriple]
Settled(call, code, data) == [call EXCEPT !.pc = "done", !.code = code, !.data = data]

\* The request up to and including findUnique.
Settings_begin(table, u, route, body) ==
  LET call  == [NoSettingsCall EXCEPT !.route = route, !.body = body]
      found == SettingsOf(table, u)
  IN  IF route = "PUT" /\ ~Settings_valid(body) THEN Settled(call, 400, NoTriple)
      ELSE IF found = {} THEN [call EXCEPT !.pc = "create"]
      ELSE IF route = "GET" THEN Settled(call, 200, Triple(The(found)))
      ELSE [call EXCEPT !.pc = "update"]

\* await prisma.userSettings.create(...) and the response.
Settings_create(table, u, id, call) ==
  LET row == SettingsRow(id, u, Merged(call.body, Defaults))
  IN  IF SettingsOf(table, u) # {}
        THEN [table |-> table, call |-> Settled(call, 500, NoTriple)]
        ELSE [table |-> table \cup {row}, call |-> Settled(call, 200, Triple(row))]

\* await prisma.userSettings.update(...) and the response.
Settings_update(table, u, call) ==
  LET old == The(SettingsOf(table, u))
      row == SettingsRow(old.id, u, Merged(call.body, old))
  IN  [table |-> (table \ {old}) \cup {row}, call |-> Settled(call, 200, Triple(row))]

\* POST /api/settings/reset: one upsert.
Settings_reset(table, u, id) ==
  LET found == SettingsOf(table, u)
      row   == SettingsRow(IF found = {} THEN id ELSE The(found).id, u, Defaults)
  IN  [table |-> (table \ found) \cup {row},
       call  |-> Settled([NoSettingsCall EXCEPT !.route = "RESET"], 200, Triple(row))]

InitSettings ==
  /\ now = 0
  /\ tz = "UTC"
  /\ dueDate = 0
  /\ completed = FALSE
  /\ status = "none"
  /\ statusText = NoText
  /\ tasks = {}
  /\ streak = -1
  /\ range = NoRange
  /\ resp = NoResp
  /\ formData = NoForm
  /\ errors = NoErrors
  /\ req = NoReq
  /\ routine = NoRoutine
  /\ taskList = <<>>
  /\ sortResult = NoSorted
  /\ num = 0
  /\ suffix = NoSuffix
  /\ db = [user_settings |-> {}]
  /\ inflight = [c \in Calls |-> NoSettingsCall]
  /\ api = NoApi
  /\ board = NoBoard

SettingsFrame ==
  UNCHANGED <<now, tz, dueDate, completed, status, statusText, tasks, streak, range, resp,
              formData, errors, req, routine, taskList, sortResult, num, suffix, api, board>>

SettingsStep(c, table, call) ==
  /\ db' = [db EXCEPT !.user_settings = table]
  /\ inflight' = [inflight EXCEPT ![c] = call]
  /\ SettingsFrame

GetSettings ==
  \E c \in Calls :
     /\ inflight[c].pc \in {"none", "done"}
     /\ SettingsStep(c, db.user_settings, Settings_begin(db.user_settings, "A", "GET", NoSettingsCall.body))

PutSettings ==
  \E c \in Calls, body \in SettingsBodies :
     /\ inflight[c].pc \in {"none", "done"}
     /\ SettingsStep(c, db.user_settings, Settings_begin(db.user_settings, "A", "PUT", body))

CreateSettings ==
  \E c \in Calls :
     /\ inflight[c].pc = "create"
     /\ SettingsStep(c, Settings_create(db.user_settings, "A", c, inflight[c]).table,
                        Settings_create(db.user_settings, "A", c, inflight[c]).call)

UpdateSettings ==
  \E c \in Calls :
     /\ inflight[c].pc = "update"
     /\ SettingsStep(c, Settings_update(db.user_settings, "A", inflight[c]).table,
                        Settings_update(db.user_settings, "A", inflight[c]).call)

ResetSettings ==
  \E c \in Calls :
     /\ inflight[c].pc \in {"none", "done"}
     /\ SettingsStep(c, Settings_reset(db.user_settings, "A", c).table,
                        Settings_reset(db.user_settings, "A", c).call)

NextSettings ==
  GetSettings \/ PutSettings \/ CreateSettings \/ UpdateSettings \/ ResetSettings

SpecSettings == InitSettings /\ [][NextSettings]_vars

IsTriple(t) ==
  /\ t.theme \in {"light", "dark", "system"}
  /\ t.language \in {"en", "zh"}
  /\ t.timezone \in {"America/New_York", "UTC"}

\* C28: a user has at most one settings row; a GET and a valid PUT are
\* answered 200 with a settings triple, the defaults when none existed; a PUT
\* writes the fields it names and leaves the others as they are; reset
\* leaves the defaults.
C28_SettingsAlwaysAnswered ==
  [][ /\ Cardinality(SettingsOf(db'.user_settings, "A")) <= 1
      /\ \A c \in Calls :
           LET call == inflight'[c] IN
           (call # inflight[c] /\ call.pc = "done") =>
              /\ (call.route = "GET" \/ (call.route = "PUT" /\ Settings_valid(call.body))) =>
                    /\ call.code = 200
                    /\ IsTriple(call.data)
                    /\ SettingsOf(db.user_settings, "A") = {} =>
                          call.data = Merged(call.body, Defaults)
              /\ (call.route = "PUT" /\ call.code = 200 /\ SettingsOf(db.user_settings, "A") # {}) =>
                    call.data = Merged(call.body, Triple(The(SettingsOf(db.user_settings, "A"))))
              /\ call.route = "RESET" =>
                    /\ call.code = 200
                    /\ call.data = Defaults
                    /\ { Triple(row) : row \in SettingsOf(db'.user_settings, "A") } = {Defaults}
    ]_vars

(***************************************************************************)
(* The API client (axios instance with its two interceptors) and the auth  *)
(* helper: SpecClient.  The browser holds one token in localStorage; the   *)
(* user logs in and out, and issues up to MaxRequests API calls one after  *)
(* the other.  The server accepts or rejects (401) a token as it likes:    *)
(* tokens expire.  For the call in flight the client state keeps the       *)
(* request config (Authorization header, _retry), the status of the last   *)
(* response, who was logged in when the call was made, how often it was    *)
(* sent and how often the response interceptor logged in again.            *)
(***************************************************************************)
MaxRequests == 3

NoRequest == [pc |-> "idle", Authorization |-> "none", _retry |-> FALSE, status |-> 0,
              issuedBy |-> "none", executedAs |-> "none", sends |-> 0, reauths |-> 0,
              outcome |-> "none"]

\* Variant: the retried request starts from a fresh config.
Retry_config_Fresh(call, token) ==
  [call EXCEPT !.pc = "sent", !.Authorization = token, !._retry = FALSE, !.sends = @ + 1]

\* originalRequest.headers.Authorization = `Bearer ${auth.getToken()}`;
\* return api.request(originalRequest): the same config, _retry included.
Retry_config(call, token) ==
  [call EXCEPT !.pc = "sent", !.Authorization = token, !.sends = @ + 1]

\* api.interceptors.request up to the first await.
Request_interceptor(token) ==
  IF token = "none"
    THEN [NoRequest EXCEPT !.pc = "autologin", !.issuedBy = token]
    ELSE [NoRequest EXCEPT !.pc = "sent", !.Authorization = token, !.issuedBy = token, !.sends = 1]

\* auth.autoLoginDemo(): the token after it.
autoLoginDemo(token, success) == IF success THEN "demo" ELSE token

\* api.interceptors.response, error branch, up to the await.
Response_interceptor(call) ==
  IF call.status = 401 /\ ~call._retry
    THEN [call EXCEPT !.pc = "reauth", !._retry = TRUE]
    ELSE [call EXCEPT !.pc = "done", !.outcome = IF call.status = 200 THEN "resolved" ELSE "rejected"]

InitClient ==
  /\ now = 0
  /\ tz = "UTC"
  /\ dueDate = 0
  /\ completed = FALSE
  /\ status = "none"
  /\ statusText = NoText
  /\ tasks = {}
  /\ streak = -1
  /\ range = NoRange
  /\ resp = NoResp
  /\ formData = NoForm
  /\ errors = NoErrors
  /\ req = NoReq
  /\ routine = NoRoutine
  /\ taskList = <<>>
  /\ sortResult = NoSorted
  /\ num = 0
  /\ suffix = NoSuffix
  /\ db = NoDb
  /\ inflight = NoCalls
  /\ api = [token |-> "none", call |-> NoRequest, requests |-> 0]
  /\ board = NoBoard

ClientFrame ==
  UNCHANGED <<now, tz, dueDate, completed, status, statusText, tasks, streak, range, resp,
              formData, errors, req, routine, taskList, sortResult, num, suffix,
              db, inflight, board>>

\* AuthPage: the user logs in and the token is stored.
UserLogin ==
  /\ api.call.pc \in {"idle", "done"}
  /\ api.token # "user"
  /\ api' = [api EXCEPT !.token = "user"]
  /\ ClientFrame

\* Layout.handleLogout
UserLogout ==
  /\ api.call.pc \in {"idle", "done"}
  /\ api.token # "none"
  /\ api' = [api EXCEPT !.token = "none", !.call = NoRequest]
  /\ ClientFrame

\* A page calls the API.
ApiCall ==
  /\ api.call.pc \in {"idle", "done"}
  /\ api.requests < MaxRequests
  /\ api' = [api EXCEPT !.call = Request_interceptor(api.token), !.requests = @ + 1]
  /\ ClientFrame

\* The request interceptor's auto-login returns and the request goes out.
AutoLogin ==
  \E success \in BOOLEAN :
     /\ api.call.pc = "autologin"
     /\ api' = [api EXCEPT !.token = autoLoginDemo(api.token, success),
                           !.call = [@ EXCEPT !.pc = "sent",
                                              !.Authorization = autoLoginDemo(api.token, success),
                                              !.sends = 1]]
     /\ ClientFrame

\* The server answers: 401 without a token, 200 or 401 with one.
ServerAnswer ==
  \E code \in {200, 401} :
     /\ api.call.pc = "sent"
     /\ api.call.Authorization = "none" => code = 401
     /\ api' = [api EXCEPT !.call = [@ EXCEPT !.pc = "answered", !.status = code,
                                              !.executedAs = IF code = 200 THEN api.call.Authorization
                                                             ELSE @]]
     /\ ClientFrame

\* The response interceptor takes the answer; on a first 401 it removes the
\* token.
TakeResponse ==
  /\ api.call.pc = "answered"
  /\ api' = [api EXCEPT !.call = Response_interceptor(api.call),
                        !.token = IF Response_interceptor(api.call).pc = "reauth" THEN "none" ELSE @]
  /\ ClientFrame

\* The response interceptor's auto-login returns: retry or reject.
ReAuthenticate ==
  \E success \in BOOLEAN :
     /\ api.call.pc = "reauth"
     /\ api' = [api EXCEPT
                  !.token = autoLoginDemo(api.token, success),
                  !.call  = IF success
                              THEN Retry_config([api.call EXCEPT !.reauths = @ + 1],
                                                autoLoginDemo(api.token, success))
                              ELSE [api.call EXCEPT !.reauths = @ + 1, !.pc = "done",
                                                    !.outcome = "rejected"]]
     /\ ClientFrame

NextClient ==
  UserLogin \/ UserLogout \/ ApiCall \/ AutoLogin \/ ServerAnswer \/ TakeResponse \/ ReAuthenticate

SpecClient == InitClient /\ [][NextClient]_vars

\* C29: for each call the response interceptor logs in again at most once
\* and the request is sent at most twice; a call that was answered 401 after
\* its retry, or whose re-authentication failed, is rejected.
C29_RetryAtMostOnce ==
  /\ api.call.reauths <= 1
  /\ api.call.sends <= 2
  /\ (api.call.pc = "reauth" \/ api.call.reauths = 1) => api.call._retry
  /\ (api.call.pc = "done" /\ api.call.status = 401) => api.call.outcome = "rejected"
  /\ (api.call.pc = "done" /\ api.call.outcome = "rejected" /\ api.call.reauths = 1) =>
        (api.call.sends = 1 \/ api.call.status = 401)

\* The retried request was answered 401 again and the call was rejected.
C29_Witness ==
  /\ api.call.pc = "done"
  /\ api.call.sends = 2
  /\ api.call.reauths = 1
  /\ api.call.status = 401
  /\ api.call.outcome = "rejected"

\* C30: a call made while a user is logged in is never accepted by the
\* server under another account: it is executed with that user's token or
\* not at all.
C30_NeverAsAnotherAccount ==
  api.call.issuedBy = "user" => api.call.executedAs \in {"none", "user"}

====
